---- MODULE Spec2Model ----
(***************************************************************************)
(* The water-treatment-network example scripts of examples/gdp: each       *)
(* script builds one Pyomo model (sets, parameters, variables,             *)
(* constraints, equipment disjuncts and disjunctions, one objective) and   *)
(* hands it to the big-M transformation and to the solver.  A script is    *)
(* modelled as the sequence of its statements; one action executes one     *)
(* kind of statement.  Numbers are exact rationals <<num, den>>.           *)
(***************************************************************************)
EXTENDS Integers, Sequences, FiniteSets, TLC

VARIABLES script, cfg, pc, status, err, sets, params, vars, cons,
          disjuncts, disjunctions, objectives, bigm, relaxation, sol, solves,
          printed

vars_all == <<script, cfg, pc, status, err, sets, params, vars, cons,
              disjuncts, disjunctions, objectives, bigm, relaxation, sol, solves,
              printed>>

(* ------------------------------------------------------------------ *)
(* Exact rational arithmetic                                           *)
(* ------------------------------------------------------------------ *)

Abs(x) == IF x < 0 THEN -x ELSE x

RECURSIVE GCD(_, _)
GCD(a, b) == IF b = 0 THEN a ELSE GCD(b, a % b)

Rat(n, d) == IF d = 1 THEN <<n, 1>> ELSE LET g == GCD(Abs(n), d) IN <<n \div g, d \div g>>

RInt(n) == <<n, 1>>

RZero == <<0, 1>>

ROne == <<1, 1>>

RAdd(a, b) ==
    IF a[1] = 0 THEN b
    ELSE IF b[1] = 0 THEN a
    ELSE IF a[2] = b[2] THEN Rat(a[1] + b[1], a[2])
    ELSE LET g == GCD(a[2], b[2])
         IN Rat(a[1] * (b[2] \div g) + b[1] * (a[2] \div g), (a[2] \div g) * b[2])

RNeg(a) == <<-a[1], a[2]>>

RSub(a, b) == RAdd(a, RNeg(b))

RMul(a, b) ==
    IF a[1] = 0 \/ b[1] = 0 THEN RZero
    ELSE IF a = ROne THEN b
    ELSE IF b = ROne THEN a
    ELSE LET g1 == GCD(Abs(a[1]), b[2])
             g2 == GCD(Abs(b[1]), a[2])
         IN <<(a[1] \div g1) * (b[1] \div g2), (a[2] \div g2) * (b[2] \div g1)>>

RLe(a, b) == RSub(a, b)[1] <= 0

\* |a| <= n for an integer n >= 0, without forming n * den
RAbsLeInt(a, n) ==
    LET q == Abs(a[1]) \div a[2]
    IN q < n \/ (q = n /\ Abs(a[1]) % a[2] = 0)

RECURSIVE RSumTo(_, _)
RSumTo(f, n) == IF n = 0 THEN RZero ELSE RAdd(RSumTo(f, n - 1), f[n])

\* sum of a sequence of rationals
RSum(f) == RSumTo(f, Len(f))

(* ------------------------------------------------------------------ *)
(* The scripts and their literal data                                  *)
(* ------------------------------------------------------------------ *)

Scripts == {"WTN_e8_CF", "small_lit", "simple", "waterDemo", "waterTreatmentNetwork"}

\* scripts built from index sets by build_water_treatment_network_model
IndexBuilt == {"WTN_e8_CF", "small_lit", "simple"}

\* scripts that declare equipment disjuncts over m.allEquipment
WithEquipment == {"WTN_e8_CF", "small_lit"}

RangeSet(a, b) == [i \in 1..(b - a + 1) |-> a + i - 1]

comps(s) ==
    IF s \in {"WTN_e8_CF", "small_lit"} THEN <<"A", "B", "C", "W">>
    ELSE <<"A", "B", "W">>

nInFlows(s) == IF s = "simple" THEN 2 ELSE 3

nMixers(s) == IF s = "simple" THEN 3 ELSE 4

\* variant: one mixer inlet fewer than there are splitters
nMixerInsShort(s) == IF s = "simple" THEN 3 ELSE 5
nMixerIns(s) == IF s = "simple" THEN 4 ELSE 6

nSplitters(s) == IF s = "simple" THEN 4 ELSE 6

nSplitterOuts(s) == IF s = "simple" THEN 3 ELSE 4

nTru(s) == IF s = "simple" THEN 2 ELSE 3

nAllEquipment(s) == IF s = "small_lit" THEN 9 ELSE 6

\* variant: the second inlet stream of the example carries 30 t/h
in_flows_uneven(s) ==
    IF s = "simple" THEN <<40, 30>> ELSE <<20, 15, 5>>

in_flows(s) ==
    IF s = "simple" THEN <<40, 40>> ELSE <<20, 15, 5>>

in_concs(s) ==
    CASE s = "WTN_e8_CF" ->
           <<[A |-> 600, B |-> 500, C |-> 500, W |-> 1],
             [A |-> 400, B |-> 200, C |-> 100, W |-> 1],
             [A |-> 200, B |-> 1000, C |-> 200, W |-> 1]>>
      [] s = "small_lit" ->
           <<[A |-> 1100, B |-> 300, C |-> 400, W |-> 1],
             [A |-> 300, B |-> 700, C |-> 1500, W |-> 1],
             [A |-> 500, B |-> 1000, C |-> 600, W |-> 1]>>
      [] OTHER ->
           <<[A |-> 100, B |-> 20, W |-> 1],
             [A |-> 15, B |-> 200, W |-> 1]>>

limits(s) ==
    IF s = "simple" THEN [A |-> 10, B |-> 10, W |-> 1]
    ELSE [A |-> 100, B |-> 100, C |-> 100, W |-> 1]

\* removal percentages per component, investment alpha, operating gamma;
\* "unit" is the unit column of the small_lit table (0 where the table has none)
equipment_info(s) ==
    CASE s = "WTN_e8_CF" ->
           <<[name |-> "EA", unit |-> 0, A |-> RInt(50), B |-> RInt(0), C |-> RInt(0), alpha |-> 0, gamma |-> RZero],
             [name |-> "EB", unit |-> 0, A |-> RInt(90), B |-> RInt(0), C |-> RInt(0), alpha |-> 0, gamma |-> RZero],
             [name |-> "EC", unit |-> 0, A |-> RInt(0), B |-> RInt(90), C |-> RInt(0), alpha |-> 0, gamma |-> RZero],
             [name |-> "ED", unit |-> 0, A |-> RInt(0), B |-> RInt(99), C |-> RInt(0), alpha |-> 0, gamma |-> RZero],
             [name |-> "EE", unit |-> 0, A |-> RInt(0), B |-> RInt(0), C |-> RInt(60), alpha |-> 0, gamma |-> RZero],
             [name |-> "EF", unit |-> 0, A |-> RInt(0), B |-> RInt(0), C |-> RInt(80), alpha |-> 0, gamma |-> RZero]>>
      [] s = "small_lit" ->
           <<[name |-> "EA", unit |-> 1, A |-> RInt(90), B |-> RInt(0), C |-> RInt(40), alpha |-> 3480, gamma |-> RZero],
             [name |-> "EB", unit |-> 1, A |-> RInt(50), B |-> RInt(70), C |-> RInt(0), alpha |-> 469, gamma |-> RInt(10)],
             [name |-> "EC", unit |-> 1, A |-> RInt(0), B |-> RInt(80), C |-> RInt(0), alpha |-> 26, gamma |-> RInt(1)],
             [name |-> "ED", unit |-> 2, A |-> RInt(0), B |-> RInt(90), C |-> RInt(0), alpha |-> 726, gamma |-> Rat(89, 10000)],
             [name |-> "EE", unit |-> 2, A |-> RInt(0), B |-> RInt(99), C |-> RInt(0), alpha |-> 1260, gamma |-> Rat(18, 1000)],
             [name |-> "EF", unit |-> 2, A |-> RInt(50), B |-> RInt(99), C |-> RInt(80), alpha |-> 5000, gamma |-> Rat(58, 10)],
             [name |-> "EG", unit |-> 3, A |-> RInt(80), B |-> RInt(0), C |-> RInt(60), alpha |-> 320, gamma |-> RInt(6)],
             [name |-> "EH", unit |-> 3, A |-> RInt(0), B |-> RInt(0), C |-> RInt(80), alpha |-> 58, gamma |-> RInt(15)],
             [name |-> "EI", unit |-> 3, A |-> RInt(0), B |-> RInt(0), C |-> RInt(40), alpha |-> 10, gamma |-> RInt(1)]>>
      [] OTHER ->
           <<[name |-> "X", unit |-> 0, A |-> RInt(95), B |-> RInt(0), C |-> RInt(0), alpha |-> 0, gamma |-> RZero],
             [name |-> "XX", unit |-> 0, A |-> RInt(0), B |-> Rat(976, 10), C |-> RInt(0), alpha |-> 0, gamma |-> RZero]>>

\* equipment options per treatment unit: the divisor of ((equip-1)//d)+1
\* variant: every script divides by 3
perUnitThree(s) == 3

perUnit(s) == IF s = "small_lit" THEN 3 ELSE 2

\* variant: the second disjunction repeats the first one's list in every script
menus_pasted(s) ==
    IF s = "small_lit" THEN <<<<1, 2, 3>>, <<1, 2, 3>>, <<7, 8, 9>>>>
    ELSE IF s = "WTN_e8_CF" THEN <<<<1, 2>>, <<1, 2>>, <<5, 6>>>>
    ELSE <<>>

\* variant: one option listed by two disjunctions, one by none
menus_overlap(s) ==
    IF s = "small_lit" THEN <<<<1, 2, 3>>, <<4, 5>>, <<7, 8, 9>>>>
    ELSE IF s = "WTN_e8_CF" THEN <<<<1, 2>>, <<2, 3, 4>>, <<5, 6>>>>
    ELSE <<>>

\* the members literally listed by m.TX, m.TXX, m.TXXX
menus(s) ==
    IF s = "small_lit" THEN <<<<1, 2, 3>>, <<4, 5, 6>>, <<7, 8, 9>>>>
    ELSE IF s = "WTN_e8_CF" THEN <<<<1, 2>>, <<3, 4>>, <<5, 6>>>>
    ELSE <<>>

\* big-M constant passed to TransformationFactory('gdp.bigm').apply_to
bigM(s) == IF s = "small_lit" THEN 1000000 ELSE 100000000


\* waterDemo.py: inlet component flows, unit performance, outlet limits
in_flow ==
    [in1 |-> [A |-> 4000, B |-> 800, W |-> 40],
     in2 |-> [A |-> 600, B |-> 8000, W |-> 40]]

perf ==
    [unit1 |-> [A |-> Rat(95, 100), B |-> RZero, W |-> RZero],
     unit2 |-> [A |-> RZero, B |-> Rat(976, 1000), W |-> RZero]]

outlet_limit == [A |-> 800, B |-> 800]

(* ------------------------------------------------------------------ *)
(* The statements of each script, in source order                      *)
(* ------------------------------------------------------------------ *)

\* variant: the script declares one more constraint on the returned model
Script_WTN_e8_CF_patched ==
    <<[op |-> "transform", name |-> "gdp.bigm", line |-> 166],
      [op |-> "con", name |-> "split_fraction_balance", line |-> 168],
      [op |-> "solve", name |-> "baron", line |-> 170],
      [op |-> "print", name |-> "results", line |-> 172],
      [op |-> "pprint", name |-> "model", line |-> 174]>>

\* the module-level statements that follow the build function
Script_WTN_e8_CF ==
    <<[op |-> "transform", name |-> "gdp.bigm", line |-> 166],
      [op |-> "solve", name |-> "baron", line |-> 170],
      [op |-> "print", name |-> "results", line |-> 172],
      [op |-> "pprint", name |-> "model", line |-> 174]>>

Program_WTN_e8_CF ==
    <<[op |-> "set", name |-> "in_flows", line |-> 35],
      [op |-> "set", name |-> "comps", line |-> 37],
      [op |-> "set", name |-> "mixers", line |-> 38],
      [op |-> "set", name |-> "mixer_ins", line |-> 39],
      [op |-> "set", name |-> "splitters", line |-> 40],
      [op |-> "set", name |-> "splitter_outs", line |-> 41],
      [op |-> "set", name |-> "tru", line |-> 42],
      [op |-> "set", name |-> "allEquipment", line |-> 43],
      [op |-> "param", name |-> "in_comp_flow", line |-> 55],
      [op |-> "param", name |-> "out_comp_flow", line |-> 62],
      [op |-> "param", name |-> "beta", line |-> 75],
      [op |-> "var", name |-> "S_k", line |-> 89],
      [op |-> "var", name |-> "M_k", line |-> 90],
      [op |-> "var", name |-> "IPU", line |-> 91],
      [op |-> "var", name |-> "OPU", line |-> 92],
      [op |-> "var", name |-> "split", line |-> 93],
      [op |-> "con", name |-> "mixer_balance", line |-> 99],
      [op |-> "con", name |-> "split_mix", line |-> 110],
      [op |-> "con", name |-> "splitter_balance", line |-> 114],
      [op |-> "con", name |-> "split_fraction_balance", line |-> 121],
      [op |-> "con", name |-> "flow_split_balance", line |-> 125],
      [op |-> "con", name |-> "total_tru_flow_balance", line |-> 132],
      [op |-> "disjunct", name |-> "equipment_disjuncts", line |-> 141],
      [op |-> "disjunction", name |-> "TX", line |-> 148],
      [op |-> "disjunction", name |-> "TXX", line |-> 151],
      [op |-> "disjunction", name |-> "TXXX", line |-> 154],
      [op |-> "objective", name |-> "minCost", line |-> 159],
      [op |-> "return", name |-> "m", line |-> 161]>>
    \o Script_WTN_e8_CF

Program_small_lit ==
    <<[op |-> "set", name |-> "in_flows", line |-> 36],
      [op |-> "set", name |-> "comps", line |-> 38],
      [op |-> "set", name |-> "mixers", line |-> 39],
      [op |-> "set", name |-> "mixer_ins", line |-> 40],
      [op |-> "set", name |-> "splitters", line |-> 41],
      [op |-> "set", name |-> "splitter_outs", line |-> 42],
      [op |-> "set", name |-> "tru", line |-> 43],
      [op |-> "set", name |-> "allEquipment", line |-> 44],
      [op |-> "param", name |-> "in_comp_flow", line |-> 56],
      [op |-> "param", name |-> "out_comp_flow", line |-> 63],
      [op |-> "param", name |-> "beta", line |-> 78],
      [op |-> "param", name |-> "alpha", line |-> 89],
      [op |-> "param", name |-> "gamma", line |-> 93],
      [op |-> "var", name |-> "S_k", line |-> 100],
      [op |-> "var", name |-> "M_k", line |-> 101],
      [op |-> "var", name |-> "IPU", line |-> 102],
      [op |-> "var", name |-> "OPU", line |-> 103],
      [op |-> "var", name |-> "split", line |-> 104],
      [op |-> "var", name |-> "CP_k", line |-> 106],
      [op |-> "con", name |-> "mixer_balance", line |-> 111],
      [op |-> "con", name |-> "split_mix", line |-> 118],
      [op |-> "con", name |-> "splitter_balance", line |-> 122],
      [op |-> "con", name |-> "split_fraction_balance", line |-> 129],
      [op |-> "con", name |-> "flow_split_balance", line |-> 133],
      [op |-> "con", name |-> "total_tru_flow_balance", line |-> 140],
      [op |-> "disjunct", name |-> "equipment_disjuncts", line |-> 149],
      [op |-> "disjunction", name |-> "TX", line |-> 160],
      [op |-> "disjunction", name |-> "TXX", line |-> 163],
      [op |-> "disjunction", name |-> "TXXX", line |-> 166],
      [op |-> "objective", name |-> "minCost", line |-> 172],
      [op |-> "return", name |-> "m", line |-> 174],
      [op |-> "transform", name |-> "gdp.bigm", line |-> 179],
      [op |-> "solve", name |-> "baron", line |-> 183],
      [op |-> "print", name |-> "results", line |-> 185],
      [op |-> "pprint", name |-> "model", line |-> 187]>>

Program_simple ==
    <<[op |-> "set", name |-> "in_flows", line |-> 36],
      [op |-> "set", name |-> "comps", line |-> 38],
      [op |-> "set", name |-> "mixers", line |-> 39],
      [op |-> "set", name |-> "mixer_ins", line |-> 40],
      [op |-> "set", name |-> "splitters", line |-> 41],
      [op |-> "set", name |-> "splitter_outs", line |-> 42],
      [op |-> "set", name |-> "tru", line |-> 43],
      [op |-> "param", name |-> "in_comp_flow", line |-> 54],
      [op |-> "param", name |-> "out_comp_flow", line |-> 61],
      [op |-> "param", name |-> "beta", line |-> 69],
      [op |-> "var", name |-> "S_k", line |-> 81],
      [op |-> "var", name |-> "M_k", line |-> 82],
      [op |-> "var", name |-> "IPU", line |-> 83],
      [op |-> "var", name |-> "OPU", line |-> 84],
      [op |-> "var", name |-> "split", line |-> 85],
      [op |-> "con", name |-> "mixer_balance", line |-> 91],
      [op |-> "con", name |-> "split_mix", line |-> 98],
      [op |-> "con", name |-> "splitter_balance", line |-> 102],
      [op |-> "con", name |-> "split_fraction_balance", line |-> 109],
      [op |-> "con", name |-> "flow_split_balance", line |-> 113],
      [op |-> "con", name |-> "component_removal", line |-> 120],
      [op |-> "con", name |-> "total_tru_flow_balance", line |-> 124],
      [op |-> "objective", name |-> "minCost", line |-> 130],
      [op |-> "return", name |-> "m", line |-> 132],
      [op |-> "transform", name |-> "gdp.bigm", line |-> 137],
      [op |-> "solve", name |-> "baron", line |-> 141],
      [op |-> "print", name |-> "results", line |-> 143],
      [op |-> "pprint", name |-> "model", line |-> 145]>>

Program_waterDemo ==
    <<[op |-> "set", name |-> "Comps", line |-> 16],
      [op |-> "set", name |-> "treatment_units", line |-> 17],
      [op |-> "set", name |-> "outlet", line |-> 18],
      [op |-> "set", name |-> "inlet", line |-> 19],
      [op |-> "var", name |-> "in_split_frac", line |-> 22],
      [op |-> "var", name |-> "flow", line |-> 23],
      [op |-> "var", name |-> "flow_into_tru", line |-> 25],
      [op |-> "var", name |-> "flow_from_tru", line |-> 26],
      [op |-> "var", name |-> "tru_split_frac", line |-> 27],
      [op |-> "var", name |-> "flow_out", line |-> 28],
      [op |-> "con", name |-> "inlet_mass_bal", line |-> 33],
      [op |-> "con", name |-> "inlet_frac_sum", line |-> 35],
      [op |-> "con", name |-> "tru_mix_bal", line |-> 41],
      [op |-> "con", name |-> "tru_performance", line |-> 50],
      [op |-> "con", name |-> "tru_split_bal", line |-> 55],
      [op |-> "con", name |-> "tru_split_sum", line |-> 59],
      [op |-> "con", name |-> "outlet_mix_bal", line |-> 64],
      [op |-> "con", name |-> "outlet_mix_limit", line |-> 71],
      [op |-> "objective", name |-> "objective", line |-> 80],
      [op |-> "return", name |-> "m", line |-> 112],
      [op |-> "solve", name |-> "baron", line |-> 122],
      [op |-> "print", name |-> "results", line |-> 124],
      [op |-> "pprint", name |-> "in_split_frac", line |-> 126],
      [op |-> "pprint", name |-> "flow", line |-> 127],
      [op |-> "pprint", name |-> "flow_into_tru", line |-> 128],
      [op |-> "pprint", name |-> "flow_from_tru", line |-> 129],
      [op |-> "pprint", name |-> "tru_split_frac", line |-> 130],
      [op |-> "pprint", name |-> "flow_out", line |-> 131]>>

Program_waterTreatmentNetwork ==
    <<[op |-> "compile", name |-> "massbal_S1", line |-> 83]>>

Program(s) ==
    CASE s = "WTN_e8_CF" -> Program_WTN_e8_CF
      [] s = "small_lit" -> Program_small_lit
      [] s = "simple" -> Program_simple
      [] s = "waterDemo" -> Program_waterDemo
      [] OTHER -> Program_waterTreatmentNetwork

\* index of the statement that declares `name` (0 when the script has none)
StmtIndex(s, name) ==
    LET hits == {i \in DOMAIN Program(s) : Program(s)[i].name = name}
    IN IF hits = {} THEN 0 ELSE CHOOSE i \in hits : TRUE

Stmt == Program(script)[pc]

Running == status = "running" /\ pc <= Len(Program(script))

\* the statement named `name` has been executed (successfully)
Done(name) ==
    /\ StmtIndex(script, name) > 0
    /\ pc > StmtIndex(script, name)

(* ------------------------------------------------------------------ *)
(* Expressions: a constraint is lhs rel rhs, each side a sum of terms   *)
(* k * v1 * v2 ... of a constant k and variable references <<var, idx>> *)
(* ------------------------------------------------------------------ *)

Range(f) == {f[i] : i \in DOMAIN f}

Ref(v, idx) == <<v, idx>>

TConst(k) == [k |-> k, f |-> <<>>, pow |-> ROne]

TVar(r) == [k |-> ROne, f |-> <<r>>, pow |-> ROne]

TScaled(k, r) == [k |-> k, f |-> <<r>>, pow |-> ROne]

TProd(r1, r2) == [k |-> ROne, f |-> <<r1, r2>>, pow |-> ROne]

TPow(k, r, p) == [k |-> k, f |-> <<r>>, pow |-> p]

Con(name, idx, lhs, rel, rhs) ==
    [name |-> name, idx |-> idx, lhs |-> lhs, rel |-> rel, rhs |-> rhs]

\* Constraint.NoConstraint / Constraint.Skip
NoConstraint == Con("", <<>>, <<>>, "skip", <<>>)

Emitted(cs) == SelectSeq(cs, LAMBDA c : c.rel # "skip")

\* an indexed component: the rule applied over the index sets in order
Emit1(I1, R(_)) == Emitted([n \in 1..Len(I1) |-> R(I1[n])])

Emit2(I1, I2, R(_, _)) ==
    Emitted([n \in 1..(Len(I1) * Len(I2)) |->
                R(I1[((n - 1) \div Len(I2)) + 1], I2[((n - 1) % Len(I2)) + 1])])

Emit3(I1, I2, I3, R(_, _, _)) ==
    Emitted([n \in 1..(Len(I1) * Len(I2) * Len(I3)) |->
                R(I1[((n - 1) \div (Len(I2) * Len(I3))) + 1],
                  I2[(((n - 1) \div Len(I3)) % Len(I2)) + 1],
                  I3[((n - 1) % Len(I3)) + 1])])

\* set union a | b, keeping a's order then b's new members
SetUnion(a, b) == a \o SelectSeq(b, LAMBDA x : x \notin Range(a))

(* ------------------------------------------------------------------ *)
(* Sets, parameters, variables                                         *)
(* ------------------------------------------------------------------ *)

SetInit(name) ==
    CASE name = "in_flows" -> RangeSet(1, nInFlows(script))
      [] name = "comps" -> comps(script)
      [] name = "mixers" -> RangeSet(1, nMixers(script))
      [] name = "mixer_ins" -> RangeSet(1, nMixerIns(script))
      [] name = "splitters" -> RangeSet(1, nSplitters(script))
      [] name = "splitter_outs" -> RangeSet(1, cfg.outs)
      [] name = "tru" -> RangeSet(1, nTru(script))
      [] name = "allEquipment" -> RangeSet(1, nAllEquipment(script))
      [] name = "Comps" -> <<"A", "B", "W">>
      [] name = "treatment_units" -> <<"unit1", "unit2">>
      [] name = "outlet" -> <<"out">>
      [] name = "inlet" -> <<"in1", "in2">>

\* the tuples of a product of index sets
Tuples(index) ==
    CASE Len(index) = 1 -> {<<a>> : a \in Range(index[1])}
      [] Len(index) = 2 -> Range(index[1]) \X Range(index[2])
      [] Len(index) = 3 -> Range(index[1]) \X Range(index[2]) \X Range(index[3])

in_comp_flow(flow, comp) == in_flows(script)[flow] * in_concs(script)[flow][comp]

\* every dictionary lookup of the in_comp_flow rule finds its key
in_comp_flow_defined(flow, comp) ==
    /\ flow \in DOMAIN in_flows(script)
    /\ flow \in DOMAIN in_concs(script)
    /\ comp \in DOMAIN in_concs(script)[flow]

out_flow_total == RSum([i \in DOMAIN sets.in_flows |-> RInt(in_flows(script)[sets.in_flows[i]])])[1]

out_comp_flow(comp) == out_flow_total * limits(script)[comp]

\* variant: the table percentage is used as it stands
beta_percent(equip, comp) ==
    IF comp = "A" THEN equipment_info(script)[equip].A
    ELSE IF comp = "B" THEN equipment_info(script)[equip].B
    ELSE IF comp = "C" /\ script # "simple" THEN equipment_info(script)[equip].C
    ELSE RZero

beta(equip, comp) ==
    IF comp = "A" THEN RMul(equipment_info(script)[equip].A, <<1, 100>>)
    ELSE IF comp = "B" THEN RMul(equipment_info(script)[equip].B, <<1, 100>>)
    ELSE IF comp = "C" /\ script # "simple"
         THEN RMul(equipment_info(script)[equip].C, <<1, 100>>)
    ELSE RZero

alpha(equip) == equipment_info(script)[equip].alpha

gamma(equip) == equipment_info(script)[equip].gamma

ParamInit(name) ==
    CASE name = "in_comp_flow" ->
           [ix \in Tuples(<<sets.in_flows, sets.comps>>) |-> RInt(in_comp_flow(ix[1], ix[2]))]
      [] name = "out_comp_flow" ->
           [ix \in Tuples(<<sets.comps>>) |-> RInt(out_comp_flow(ix[1]))]
      [] name = "beta" ->
           [ix \in Tuples(<<IF script = "simple" THEN sets.tru ELSE sets.allEquipment,
                            sets.comps>>) |-> beta(ix[1], ix[2])]
      [] name = "alpha" -> [ix \in Tuples(<<sets.allEquipment>>) |-> RInt(alpha(ix[1]))]
      [] name = "gamma" -> [ix \in Tuples(<<sets.allEquipment>>) |-> gamma(ix[1])]

ParamDefined(name) ==
    name = "in_comp_flow" =>
        \A ix \in Tuples(<<sets.in_flows, sets.comps>>) : in_comp_flow_defined(ix[1], ix[2])

\* variant: a variable declared without bounds
VarNoBounds(index, bounds) == [index |-> index, domain |-> "NonNegativeReals", bounds |-> <<>>]

Var(index, bounds) == [index |-> index, domain |-> "NonNegativeReals", bounds |-> bounds]

VarDecl(name) ==
    CASE name = "S_k" -> Var(<<sets.splitters, sets.splitter_outs, sets.comps>>, <<>>)
      [] name = "M_k" -> Var(<<sets.mixers, sets.mixer_ins, sets.comps>>, <<>>)
      [] name = "IPU" -> Var(<<sets.tru, sets.comps>>, <<>>)
      [] name = "OPU" -> Var(<<sets.tru, sets.comps>>, <<>>)
      [] name = "split" -> Var(<<sets.splitters, sets.splitter_outs>>, <<0, 1>>)
      [] name = "CP_k" -> Var(<<sets.tru>>, <<>>)
      [] name = "in_split_frac" ->
           Var(<<SetUnion(sets.treatment_units, sets.outlet)>>, <<0, 1>>)
      [] name = "flow" ->
           Var(<<SetUnion(sets.inlet, sets.treatment_units),
                 SetUnion(sets.outlet, sets.treatment_units), sets.Comps>>, <<>>)
      [] name = "flow_into_tru" -> Var(<<sets.treatment_units, sets.Comps>>, <<>>)
      [] name = "flow_from_tru" -> Var(<<sets.treatment_units, sets.Comps>>, <<>>)
      [] name = "tru_split_frac" ->
           Var(<<sets.treatment_units, SetUnion(sets.treatment_units, sets.outlet)>>, <<0, 1>>)
      [] name = "flow_out" -> Var(<<sets.Comps>>, <<>>)


(* ------------------------------------------------------------------ *)
(* Constraint rules of the index-built scripts                         *)
(* ------------------------------------------------------------------ *)

\* sum(m.M_k[mixer,inlet,comp] for inlet in m.mixer_ins)
MixerInletSum(mixer, comp) ==
    [n \in 1..Len(sets.mixer_ins) |-> TVar(Ref("M_k", <<mixer, sets.mixer_ins[n], comp>>))]

\* sum(m.S_k[splitter,outlet,comp] for outlet in m.splitter_outs)
SplitterOutletSum(splitter, comp) ==
    [n \in 1..Len(sets.splitter_outs) |->
        TVar(Ref("S_k", <<splitter, sets.splitter_outs[n], comp>>))]

\* the relation of the last mixer's balance for a component
TerminalRel(comp) ==
    IF script = "WTN_e8_CF" /\ comp # "W" THEN "ge" ELSE "eq"

\* variant: the last two mixers get the discharge form
mixer_balance_early(mixer, comp) ==
    IF mixer < Len(sets.mixers) - 1
    THEN Con("mixer_balance", <<mixer, comp>>,
             <<TVar(Ref("IPU", <<mixer, comp>>))>>, "eq", MixerInletSum(mixer, comp))
    ELSE Con("mixer_balance", <<mixer, comp>>,
             <<TConst(params.out_comp_flow[<<comp>>])>>, TerminalRel(comp),
             MixerInletSum(mixer, comp))

mixer_balance(mixer, comp) ==
    IF mixer < Len(sets.mixers)
    THEN Con("mixer_balance", <<mixer, comp>>,
             <<TVar(Ref("IPU", <<mixer, comp>>))>>, "eq", MixerInletSum(mixer, comp))
    ELSE Con("mixer_balance", <<mixer, comp>>,
             <<TConst(params.out_comp_flow[<<comp>>])>>, TerminalRel(comp),
             MixerInletSum(mixer, comp))

split_mix(splitter, mixer, comp) ==
    Con("split_mix", <<splitter, mixer, comp>>,
        <<TVar(Ref("M_k", <<mixer, splitter, comp>>))>>, "eq",
        <<TVar(Ref("S_k", <<splitter, mixer, comp>>))>>)

splitter_balance(splitter, comp) ==
    IF splitter <= Len(sets.in_flows)
    THEN Con("splitter_balance", <<splitter, comp>>,
             <<TConst(params.in_comp_flow[<<splitter, comp>>])>>, "eq",
             SplitterOutletSum(splitter, comp))
    ELSE Con("splitter_balance", <<splitter, comp>>,
             <<TVar(Ref("OPU", <<splitter - Len(sets.in_flows), comp>>))>>, "eq",
             SplitterOutletSum(splitter, comp))

\* variant: the fraction sum leaves out the last outlet
split_fraction_balance_short(splitter) ==
    Con("split_fraction_balance", <<splitter>>, <<TConst(ROne)>>, "eq",
        [n \in 1..(Len(sets.splitter_outs) - 1) |->
            TVar(Ref("split", <<splitter, sets.splitter_outs[n]>>))])

split_fraction_balance(splitter) ==
    Con("split_fraction_balance", <<splitter>>, <<TConst(ROne)>>, "eq",
        [n \in 1..Len(sets.splitter_outs) |->
            TVar(Ref("split", <<splitter, sets.splitter_outs[n]>>))])

\* variant: a unit's splitter splits the unit's inlet flow
flow_split_balance_inlet(splitter, outlet, comp) ==
    IF splitter <= Len(sets.in_flows)
    THEN Con("flow_split_balance", <<splitter, outlet, comp>>,
             <<TVar(Ref("S_k", <<splitter, outlet, comp>>))>>, "eq",
             <<TScaled(params.in_comp_flow[<<splitter, comp>>],
                       Ref("split", <<splitter, outlet>>))>>)
    ELSE Con("flow_split_balance", <<splitter, outlet, comp>>,
             <<TVar(Ref("S_k", <<splitter, outlet, comp>>))>>, "eq",
             <<TProd(Ref("split", <<splitter, outlet>>),
                     Ref("IPU", <<splitter - Len(sets.in_flows), comp>>))>>)

flow_split_balance(splitter, outlet, comp) ==
    IF splitter <= Len(sets.in_flows)
    THEN Con("flow_split_balance", <<splitter, outlet, comp>>,
             <<TVar(Ref("S_k", <<splitter, outlet, comp>>))>>, "eq",
             <<TScaled(params.in_comp_flow[<<splitter, comp>>],
                       Ref("split", <<splitter, outlet>>))>>)
    ELSE Con("flow_split_balance", <<splitter, outlet, comp>>,
             <<TVar(Ref("S_k", <<splitter, outlet, comp>>))>>, "eq",
             <<TProd(Ref("split", <<splitter, outlet>>),
                     Ref("OPU", <<splitter - Len(sets.in_flows), comp>>))>>)

\* variant: half of the carrier entering a unit leaves it
total_tru_flow_balance_lossy(equip) ==
    Con("total_tru_flow_balance", <<equip>>,
        <<TScaled(Rat(1, 2), Ref("IPU", <<equip, "W">>))>>, "eq",
        <<TVar(Ref("OPU", <<equip, "W">>))>>)

total_tru_flow_balance(equip) ==
    Con("total_tru_flow_balance", <<equip>>,
        <<TVar(Ref("IPU", <<equip, "W">>))>>, "eq", <<TVar(Ref("OPU", <<equip, "W">>))>>)

\* simpleWaterTreatmentNetwork.py: removal is a plain constraint per unit
component_removal(equip, comp) ==
    Con("component_removal", <<equip, comp>>,
        <<TVar(Ref("OPU", <<equip, comp>>))>>, "eq",
        <<TScaled(RSub(ROne, params.beta[<<equip, comp>>]), Ref("IPU", <<equip, comp>>))>>)

\* the treatment unit whose flows an equipment disjunct constrains
UnitOfEquip(equip) == ((equip - 1) \div perUnit(script)) + 1

\* disj.component_removal[comp] of m.equipment_disjuncts[equip]
disj_component_removal(equip, comp) ==
    Con("component_removal", <<equip, comp>>,
        <<TVar(Ref("OPU", <<UnitOfEquip(equip), comp>>))>>, "eq",
        <<TScaled(RSub(ROne, params.beta[<<equip, comp>>]),
                  Ref("IPU", <<UnitOfEquip(equip), comp>>))>>)

\* disj.cost of m.equipment_disjuncts[equip] (small_lit):
\* CP_k/1000 == (alpha*F**0.7 + gamma*F)/1000 with F = OPU[unit,'W']
disj_cost(equip) ==
    Con("cost", <<equip>>,
        <<TScaled(<<1, 1000>>, Ref("CP_k", <<UnitOfEquip(equip)>>))>>, "eq",
        <<TPow(RMul(params.alpha[<<equip>>], <<1, 1000>>),
               Ref("OPU", <<UnitOfEquip(equip), "W">>), <<7, 10>>),
          TScaled(RMul(params.gamma[<<equip>>], <<1, 1000>>),
                  Ref("OPU", <<UnitOfEquip(equip), "W">>))>>)

\* the block of m.equipment_disjuncts[equip]
equipment_disjuncts(equip) ==
    Emit1(sets.comps, LAMBDA comp : disj_component_removal(equip, comp))
    \o (IF script = "small_lit" THEN <<disj_cost(equip)>> ELSE <<>>)

(* ------------------------------------------------------------------ *)
(* Constraint rules of waterDemo.py                                    *)
(* ------------------------------------------------------------------ *)

TruOrOutlet == SetUnion(sets.treatment_units, sets.outlet)

InletOrTru == SetUnion(sets.inlet, sets.treatment_units)

\* variant: the second inlet is split by fractions of its own
inlet_mass_bal_own(flow, sink, comp) ==
    Con("inlet_mass_bal", <<flow, sink, comp>>,
        <<TScaled(RInt(in_flow[flow][comp]),
                  IF flow = "in1" THEN Ref("in_split_frac", <<sink>>)
                  ELSE Ref("tru_split_frac", <<"unit1", sink>>))>>, "eq",
        <<TVar(Ref("flow", <<flow, sink, comp>>))>>)

inlet_mass_bal(flow, sink, comp) ==
    Con("inlet_mass_bal", <<flow, sink, comp>>,
        <<TScaled(RInt(in_flow[flow][comp]), Ref("in_split_frac", <<sink>>))>>, "eq",
        <<TVar(Ref("flow", <<flow, sink, comp>>))>>)

inlet_frac_sum ==
    Con("inlet_frac_sum", <<>>,
        [n \in 1..Len(TruOrOutlet) |-> TVar(Ref("in_split_frac", <<TruOrOutlet[n]>>))],
        "eq", <<TConst(ROne)>>)

tru_mix_bal(t, comp) ==
    Con("tru_mix_bal", <<t, comp>>,
        [n \in 1..Len(InletOrTru) |-> TVar(Ref("flow", <<InletOrTru[n], t, comp>>))],
        "eq", <<TVar(Ref("flow_into_tru", <<t, comp>>))>>)

tru_performance(tru, comp) ==
    Con("tru_performance", <<tru, comp>>,
        <<TVar(Ref("flow_from_tru", <<tru, comp>>))>>, "eq",
        <<TScaled(RSub(ROne, perf[tru][comp]), Ref("flow_into_tru", <<tru, comp>>))>>)

tru_split_bal(tru, sink, comp) ==
    Con("tru_split_bal", <<tru, sink, comp>>,
        <<TProd(Ref("flow_from_tru", <<tru, comp>>), Ref("tru_split_frac", <<tru, sink>>))>>,
        "eq", <<TVar(Ref("flow", <<tru, sink, comp>>))>>)

tru_split_sum(t) ==
    Con("tru_split_sum", <<t>>,
        [n \in 1..Len(TruOrOutlet) |-> TVar(Ref("tru_split_frac", <<t, TruOrOutlet[n]>>))],
        "eq", <<TConst(ROne)>>)

outlet_mix_bal(comp) ==
    Con("outlet_mix_bal", <<comp>>,
        <<TVar(Ref("flow_out", <<comp>>))>>, "eq",
        [n \in 1..Len(InletOrTru) |-> TVar(Ref("flow", <<InletOrTru[n], "out", comp>>))])

outlet_mix_limit(comp) ==
    IF comp \in DOMAIN outlet_limit
    THEN Con("outlet_mix_limit", <<comp>>,
             <<TVar(Ref("flow_out", <<comp>>))>>, "le", <<TConst(RInt(outlet_limit[comp]))>>)
    ELSE NoConstraint

(* ------------------------------------------------------------------ *)
(* What a constraint statement emits                                   *)
(* ------------------------------------------------------------------ *)

ConstraintsOf(name) ==
    CASE name = "mixer_balance" -> Emit2(sets.mixers, sets.comps, mixer_balance)
      [] name = "split_mix" -> Emit3(sets.splitters, sets.mixers, sets.comps, split_mix)
      [] name = "splitter_balance" -> Emit2(sets.splitters, sets.comps, splitter_balance)
      [] name = "split_fraction_balance" -> Emit1(sets.splitters, split_fraction_balance)
      [] name = "flow_split_balance" ->
           Emit3(sets.splitters, sets.splitter_outs, sets.comps, flow_split_balance)
      [] name = "component_removal" -> Emit2(sets.tru, sets.comps, component_removal)
      [] name = "total_tru_flow_balance" -> Emit1(sets.tru, total_tru_flow_balance)
      [] name = "inlet_mass_bal" ->
           Emit3(sets.inlet, TruOrOutlet, sets.Comps, inlet_mass_bal)
      [] name = "inlet_frac_sum" -> <<inlet_frac_sum>>
      [] name = "tru_mix_bal" -> Emit2(sets.treatment_units, sets.Comps, tru_mix_bal)
      [] name = "tru_performance" -> Emit2(sets.treatment_units, sets.Comps, tru_performance)
      [] name = "tru_split_bal" ->
           Emit3(sets.treatment_units, TruOrOutlet, sets.Comps, tru_split_bal)
      [] name = "tru_split_sum" -> Emit1(sets.treatment_units, tru_split_sum)
      [] name = "outlet_mix_bal" -> Emit1(sets.Comps, outlet_mix_bal)
      [] name = "outlet_mix_limit" -> Emit1(sets.Comps, outlet_mix_limit)

\* variant: every flow objective sums component 'A'
ObjectiveTerms_A ==
    CASE script = "WTN_e8_CF" ->
           [n \in 1..Len(sets.tru) |-> TVar(Ref("IPU", <<sets.tru[n], "A">>))]
      [] script = "simple" ->
           [n \in 1..Len(sets.tru) |-> TVar(Ref("OPU", <<sets.tru[n], "A">>))]
      [] script = "small_lit" ->
           [n \in 1..Len(sets.tru) |-> TVar(Ref("CP_k", <<sets.tru[n]>>))]
      [] script = "waterDemo" ->
           [n \in 1..Len(sets.treatment_units) |->
               TVar(Ref("flow_into_tru", <<sets.treatment_units[n], "A">>))]

\* the objective expression of each script
ObjectiveTerms ==
    CASE script = "WTN_e8_CF" ->
           [n \in 1..Len(sets.tru) |-> TVar(Ref("IPU", <<sets.tru[n], "W">>))]
      [] script = "simple" ->
           [n \in 1..Len(sets.tru) |-> TVar(Ref("OPU", <<sets.tru[n], "W">>))]
      [] script = "small_lit" ->
           [n \in 1..Len(sets.tru) |-> TVar(Ref("CP_k", <<sets.tru[n]>>))]
      [] script = "waterDemo" ->
           [n \in 1..Len(sets.treatment_units) |->
               TVar(Ref("flow_into_tru", <<sets.treatment_units[n], "W">>))]

(* ------------------------------------------------------------------ *)
(* Index lookups of the modelling framework                            *)
(* ------------------------------------------------------------------ *)

\* m.<var>[idx] names a member of the variable's declared index set
RefOK(r) ==
    /\ r[1] \in DOMAIN vars
    /\ Len(r[2]) = Len(vars[r[1]].index)
    /\ \A j \in 1..Len(r[2]) : \E q \in DOMAIN vars[r[1]].index[j] :
           vars[r[1]].index[j][q] = r[2][j]

TermsOK(ts) == \A n \in DOMAIN ts : \A j \in DOMAIN ts[n].f : RefOK(ts[n].f[j])

LookupsOK(cs) == \A n \in DOMAIN cs : TermsOK(cs[n].lhs) /\ TermsOK(cs[n].rhs)

\* Disjunction(expr=[...]): every m.equipment_disjuncts[e] of the list is looked
\* up among the declared disjuncts; the length of the list is not looked at
DisjunctionOK(members) ==
    \A n \in DOMAIN members : members[n] \in DOMAIN disjuncts


(* ------------------------------------------------------------------ *)
(* State machine: one action per kind of statement                     *)
(* ------------------------------------------------------------------ *)

NoSol == [found |-> FALSE]

\* the tables a script ships with: the splitter_outs range and the disjunction lists
ShippedCfg(s) ==
    [outs |-> IF s \in IndexBuilt THEN nSplitterOuts(s) ELSE 0, menus |-> menus(s)]

InitWith(s, c) ==
    /\ script = s
    /\ cfg = c
    /\ pc = 1
    /\ status = "running"
    /\ err = "none"
    /\ sets = <<>>
    /\ params = <<>>
    /\ vars = <<>>
    /\ cons = <<>>
    /\ disjuncts = <<>>
    /\ disjunctions = <<>>
    /\ objectives = <<>>
    /\ bigm = 0
    /\ relaxation = [rows |-> <<>>, xors |-> <<>>, disjuncts |-> {}, disjunctions |-> {}]
    /\ sol = NoSol
    /\ solves = 0
    /\ printed = <<>>

Init == \E s \in Scripts : InitWith(s, ShippedCfg(s))

\* an exception leaves the script: nothing after the raising statement runs
Raise(e) ==
    /\ status' = "error"
    /\ err' = e
    /\ UNCHANGED <<script, cfg, pc, sets, params, vars, cons, disjuncts, disjunctions,
                   objectives, bigm, relaxation, sol, solves, printed>>

Step == pc' = pc + 1 /\ UNCHANGED <<script, cfg, status, err>>

DeclareSet ==
    /\ Running /\ Stmt.op = "set"
    /\ sets' = sets @@ (Stmt.name :> SetInit(Stmt.name))
    /\ Step
    /\ UNCHANGED <<params, vars, cons, disjuncts, disjunctions, objectives, bigm, relaxation, sol,
                   solves, printed>>

DeclareParam ==
    /\ Running /\ Stmt.op = "param"
    /\ IF ParamDefined(Stmt.name)
       THEN /\ params' = params @@ (Stmt.name :> ParamInit(Stmt.name))
            /\ Step
            /\ UNCHANGED <<sets, vars, cons, disjuncts, disjunctions, objectives, bigm, relaxation,
                           sol, solves, printed>>
       ELSE Raise("KeyError")

DeclareVar ==
    /\ Running /\ Stmt.op = "var"
    /\ vars' = vars @@ (Stmt.name :> VarDecl(Stmt.name))
    /\ Step
    /\ UNCHANGED <<sets, params, cons, disjuncts, disjunctions, objectives, bigm, relaxation, sol,
                   solves, printed>>

DeclareConstraint ==
    /\ Running /\ Stmt.op = "con"
    /\ LET cs == ConstraintsOf(Stmt.name)
       IN IF LookupsOK(cs)
          THEN /\ cons' = cons \o cs
               /\ Step
               /\ UNCHANGED <<sets, params, vars, disjuncts, disjunctions, objectives,
                              bigm, relaxation, sol, solves, printed>>
          ELSE Raise("ConfigurationError")

\* @m.Disjunct(m.allEquipment) builds every block at once
DeclareDisjunct ==
    /\ Running /\ Stmt.op = "disjunct"
    /\ LET blocks == [e \in Range(sets.allEquipment) |-> equipment_disjuncts(e)]
       IN IF \A e \in DOMAIN blocks : LookupsOK(blocks[e])
          THEN /\ disjuncts' = blocks
               /\ Step
               /\ UNCHANGED <<sets, params, vars, cons, disjunctions, objectives,
                              bigm, relaxation, sol, solves, printed>>
          ELSE Raise("ConfigurationError")

\* which list of cfg.menus a Disjunction statement passes as expr
MenuIndex(name) ==
    CASE name = "TX" -> 1
      [] name = "TXX" -> 2
      [] name = "TXXX" -> 3

DeclareDisjunction ==
    /\ Running /\ Stmt.op = "disjunction"
    /\ LET members == cfg.menus[MenuIndex(Stmt.name)]
       IN IF DisjunctionOK(members)
          THEN /\ disjunctions' = Append(disjunctions,
                                         [name |-> Stmt.name, members |-> members])
               /\ Step
               /\ UNCHANGED <<sets, params, vars, cons, disjuncts, objectives, bigm, relaxation, sol,
                              solves, printed>>
          ELSE Raise("ConfigurationError")

\* waterTreatmentNetwork.py writes Constraint(expr=a = b), first on line 83:
\* the file is rejected when it is compiled and none of its statements runs
Compile ==
    /\ Running /\ Stmt.op = "compile"
    /\ Raise("SyntaxError")

DeclareObjective ==
    /\ Running /\ Stmt.op = "objective"
    /\ IF TermsOK(ObjectiveTerms)
       THEN /\ objectives' = Append(objectives,
                                    [name |-> Stmt.name, sense |-> "minimize",
                                     terms |-> ObjectiveTerms])
            /\ Step
            /\ UNCHANGED <<sets, params, vars, cons, disjuncts, disjunctions, bigm, relaxation, sol,
                           solves, printed>>
       ELSE Raise("ConfigurationError")

\* return m; model = build_water_treatment_network_model()
Return ==
    /\ Running /\ Stmt.op = "return"
    /\ Step
    /\ UNCHANGED <<sets, params, vars, cons, disjuncts, disjunctions, objectives, bigm, relaxation,
                   sol, solves, printed>>

\* what gdp.bigm makes of the disjunctive part of a model: for every disjunct
\* a disjunction lists, each of its constraints in big-M form (the constraint,
\* the disjunct whose indicator switches it on, the constant M that bounds it
\* while the indicator is 0); for every disjunction the constraint that exactly
\* one indicator of its list is 1; the disjuncts and disjunctions it has
\* handled, which it deactivates
BigMRelaxation(M) ==
    LET RECURSIVE Listed(_)
        Listed(ds) == IF ds = <<>> THEN <<>> ELSE ds[1].members \o Listed(Tail(ds))
        RECURSIVE RowsOf(_)
        RowsOf(es) ==
            IF es = <<>> THEN <<>>
            ELSE [n \in DOMAIN disjuncts[es[1]] |->
                     [disjunct |-> es[1], con |-> disjuncts[es[1]][n], M |-> M]]
                 \o RowsOf(Tail(es))
    IN [rows |-> RowsOf(Listed(disjunctions)),
        xors |-> [j \in DOMAIN disjunctions |-> disjunctions[j].members],
        disjuncts |-> Range(Listed(disjunctions)),
        disjunctions |-> {disjunctions[j].name : j \in DOMAIN disjunctions}]

\* TransformationFactory('gdp.bigm').apply_to(model, bigM=...): the call works
\* on the model object it is given (its return value is not used, and the
\* same object is solved next)
Transform ==
    /\ Running /\ Stmt.op = "transform"
    /\ bigm' = bigM(script)
    /\ relaxation' = BigMRelaxation(bigM(script))
    /\ Step
    /\ UNCHANGED <<sets, params, vars, cons, disjuncts, disjunctions, objectives, sol,
                   solves, printed>>

Built == Done("m")

(* ------------------------------------------------------------------ *)
(* Values of expressions at an assignment                              *)
(* An assignment gives every variable index a rational value; the      *)
(* value of CP_k is kept as <<a, g, F>>, standing for a*F^0.7 + g*F.   *)
(* ------------------------------------------------------------------ *)

RInv(a) == <<a[2], a[1]>>

CostZero == <<RZero, RZero, RZero>>

CostNF(a, g, F) == IF F[1] = 0 \/ (a[1] = 0 /\ g[1] = 0) THEN CostZero ELSE <<a, g, F>>

(* Natural numbers of any size, as sequences of digits to the base 10000,  *)
(* lowest digit first and no leading zero digit; <<>> is 0.              *)

RECURSIVE BNat(_)
BNat(n) == IF n = 0 THEN <<>> ELSE <<n % 10000>> \o BNat(n \div 10000)

RECURSIVE BAdd(_, _, _)
BAdd(a, b, c) ==
    IF a = <<>> /\ b = <<>> THEN (IF c = 0 THEN <<>> ELSE <<c>>)
    ELSE LET x == (IF a = <<>> THEN 0 ELSE a[1]) + (IF b = <<>> THEN 0 ELSE b[1]) + c
         IN <<x % 10000>> \o BAdd(IF a = <<>> THEN <<>> ELSE Tail(a),
                                 IF b = <<>> THEN <<>> ELSE Tail(b), x \div 10000)

\* a - b - c for a >= b + c, digit by digit
RECURSIVE BSubDigits(_, _, _)
BSubDigits(a, b, c) ==
    IF a = <<>> THEN <<>>
    ELSE LET x == a[1] - (IF b = <<>> THEN 0 ELSE b[1]) - c
         IN <<IF x < 0 THEN x + 10000 ELSE x>>
            \o BSubDigits(Tail(a), IF b = <<>> THEN <<>> ELSE Tail(b), IF x < 0 THEN 1 ELSE 0)

RECURSIVE BTrim(_)
BTrim(a) == IF a = <<>> \/ a[Len(a)] # 0 THEN a ELSE BTrim(SubSeq(a, 1, Len(a) - 1))

BSub(a, b) == BTrim(BSubDigits(a, b, 0))

\* a * d + c for a digit d > 0
RECURSIVE BScale(_, _, _)
BScale(a, d, c) ==
    IF a = <<>> THEN BNat(c)
    ELSE LET x == a[1] * d + c IN <<x % 10000>> \o BScale(Tail(a), d, x \div 10000)

\* a * b, digit by digit of a
RECURSIVE BMulDigits(_, _)
BMulDigits(a, b) ==
    IF a = <<>> \/ b = <<>> THEN <<>>
    ELSE LET rest == BMulDigits(Tail(a), b)
             shifted == IF rest = <<>> THEN <<>> ELSE <<0>> \o rest
         IN IF a[1] = 0 THEN shifted ELSE BAdd(BScale(b, a[1], 0), shifted, 0)

BMul(a, b) == IF Len(a) <= Len(b) THEN BMulDigits(a, b) ELSE BMulDigits(b, a)

RECURSIVE BPow(_, _)
BPow(a, n) == IF n = 0 THEN <<1>> ELSE BMul(a, BPow(a, n - 1))

\* a <= b: by length, then by the highest digit in which they differ
BLe(a, b) ==
    IF Len(a) # Len(b) THEN Len(a) < Len(b)
    ELSE \A n \in DOMAIN a :
            (a[n] # b[n] /\ \A m \in DOMAIN a : m > n => a[m] = b[m]) => a[n] < b[n]

\* k * (A * F**0.7 + G * F) <= M, for rationals k > 0, A, G, F > 0 and an
\* integer M >= 0.  With A = an/ad, G = gn/gd, F = p/q, k = kn/kd the statement is
\*     L * F**0.7 <= R,  L = an*gd*q*kn,  R = ad*(M*kd*gd*q - kn*gn*p),
\* and for L, R > 0 that is L^10 * p^7 <= R^10 * q^7: decided exactly
CostAtMost(k, A, G, F, M) ==
    LET L == BMul(BNat(Abs(A[1])), BMul(BNat(G[2]), BMul(BNat(F[2]), BNat(k[1]))))
        P1 == BMul(BNat(M), BMul(BNat(k[2]), BMul(BNat(G[2]), BNat(F[2]))))
        P2 == BMul(BNat(k[1]), BMul(BNat(Abs(G[1])), BNat(F[1])))
        Rneg == G[1] > 0 /\ ~BLe(P2, P1)
        R == BMul(BNat(A[2]),
                  IF G[1] <= 0 THEN BAdd(P1, P2, 0)
                  ELSE IF Rneg THEN BSub(P2, P1) ELSE BSub(P1, P2))
        L10 == BMul(BPow(L, 10), BPow(BNat(F[1]), 7))
        R10 == BMul(BPow(R, 10), BPow(BNat(F[2]), 7))
    IN IF A[1] = 0 THEN ~Rneg
       ELSE IF A[1] > 0 THEN ~Rneg /\ BLe(L10, R10)
       ELSE ~Rneg \/ BLe(R10, L10)


(* ------------------------------------------------------------------ *)
(* Designs: the points the solver is offered.  A design routes every   *)
(* splitter's flow (frac), fixes the removal ratios each unit works    *)
(* with (opt) and the equipment whose indicator is 1 (ind, 0 = none).  *)
(* ------------------------------------------------------------------ *)

nIn == Len(sets.in_flows)

Frac(d, s, o) ==
    IF s \in DOMAIN d.frac /\ o \in DOMAIN d.frac[s] THEN d.frac[s][o] ELSE RZero

CompIndex(c) == CHOOSE n \in DOMAIN sets.comps : sets.comps[n] = c

\* component flows <<into, out of>> units 1..k, each a sequence over sets.comps;
\* a unit is fed by the inlet streams and by the units before it
RECURSIVE UnitFlows(_, _, _)
UnitFlows(fr, o, k) ==
    IF k = 0 THEN <<>>
    ELSE LET prev == UnitFlows(fr, o, k - 1)
             into == [n \in 1..Len(sets.comps) |->
                        RSum([s \in 1..Len(sets.splitters) |->
                                IF k \notin DOMAIN fr[s] \/ fr[s][k][1] = 0 THEN RZero
                                ELSE IF s <= nIn
                                THEN RMul(fr[s][k], params.in_comp_flow[<<s, sets.comps[n]>>])
                                ELSE RMul(fr[s][k], prev[s - nIn][2][n])])] \o <<>>
             out == [n \in 1..Len(sets.comps) |->
                       RMul(RSub(ROne, params.beta[<<o[k], sets.comps[n]>>]), into[n])] \o <<>>
         IN Append(prev, <<into, out>>)

Design(fr, o, i) == [frac |-> fr, opt |-> o, ind |-> i, io |-> UnitFlows(fr, o, Len(sets.tru))]

UnitIn(d, k, c) == d.io[k][1][CompIndex(c)]

UnitOut(d, k, c) == d.io[k][2][CompIndex(c)]

\* component flow into a splitter: an inlet stream or a unit's outlet
InletFlow(d, s, c) ==
    IF s <= nIn THEN params.in_comp_flow[<<s, c>>] ELSE UnitOut(d, s - nIn, c)

SplitterFlow(d, s, o, c) ==
    IF Frac(d, s, o)[1] = 0 THEN RZero ELSE RMul(Frac(d, s, o), InletFlow(d, s, c))

\* the cost of unit k under the equipment whose indicator is 1
UnitCost(d, k) ==
    IF d.ind[k] = 0 THEN CostZero
    ELSE CostNF(params.alpha[<<d.ind[k]>>], params.gamma[<<d.ind[k]>>], UnitOut(d, k, "W"))

NetworkValue(d, v, ix) ==
    CASE v = "split" -> Frac(d, ix[1], ix[2])
      [] v = "S_k" -> SplitterFlow(d, ix[1], ix[2], ix[3])
      [] v = "M_k" -> SplitterFlow(d, ix[2], ix[1], ix[3])
      [] v = "IPU" -> UnitIn(d, ix[1], ix[2])
      [] v = "OPU" -> UnitOut(d, ix[1], ix[2])
      [] v = "CP_k" -> UnitCost(d, ix[1])

RECURSIVE DemoInto(_, _, _)
DemoFrom(d, t, c) ==
    IF "from" \in DOMAIN d THEN d.from[t][c]
    ELSE RMul(RSub(ROne, perf[t][c]), DemoInto(d, t, c))

DemoFlow(d, src, sink, c) ==
    IF src \in Range(sets.inlet)
    THEN RMul(RInt(in_flow[src][c]), d.ifrac[sink])
    ELSE IF d.tfrac[src][sink][1] = 0 THEN RZero
    ELSE RMul(DemoFrom(d, src, c), d.tfrac[src][sink])

DemoInto(d, t, c) ==
    IF "into" \in DOMAIN d THEN d.into[t][c]
    ELSE RSum([n \in 1..Len(InletOrTru) |-> DemoFlow(d, InletOrTru[n], t, c)])

DemoValue(d, v, ix) ==
    CASE v = "in_split_frac" -> d.ifrac[ix[1]]
      [] v = "flow" -> DemoFlow(d, ix[1], ix[2], ix[3])
      [] v = "flow_into_tru" -> DemoInto(d, ix[1], ix[2])
      [] v = "flow_from_tru" -> DemoFrom(d, ix[1], ix[2])
      [] v = "tru_split_frac" -> d.tfrac[ix[1]][ix[2]]
      [] v = "flow_out" ->
           RSum([n \in 1..Len(InletOrTru) |-> DemoFlow(d, InletOrTru[n], "out", ix[1])])

DesignValue(d, v, ix) ==
    IF script = "waterDemo" THEN DemoValue(d, v, ix) ELSE NetworkValue(d, v, ix)

Indicators(d) == [e \in DOMAIN disjuncts |-> IF d.ind[UnitOfEquip(e)] = e THEN 1 ELSE 0]

\* the point a design stands for, its values computed where they are read
Point(d) == [found |-> TRUE, design |-> d, y |-> Indicators(d)]

\* the assignment a design stands for, as loaded into the model
Asg(d) ==
    [found |-> TRUE,
     val |-> [v \in DOMAIN vars |-> [ix \in Tuples(vars[v].index) |-> DesignValue(d, v, ix)]],
     y |-> Indicators(d)]

\* the value of m.<var>[idx] at a point
RefVal(a, r) ==
    IF "design" \in DOMAIN a THEN DesignValue(a.design, r[1], r[2]) ELSE a.val[r[1]][r[2]]

FactorProd(a, f) ==
    IF Len(f) = 0 THEN ROne
    ELSE IF Len(f) = 1 THEN RefVal(a, f[1])
    ELSE RMul(RefVal(a, f[1]), RefVal(a, f[2]))

TermValue(a, t) == RMul(t.k, FactorProd(a, t.f))

SideValue(a, ts) == RSum([n \in DOMAIN ts |-> TermValue(a, ts[n])])

\* body of a constraint: lhs - rhs
Body(a, c) == RSub(SideValue(a, c.lhs), SideValue(a, c.rhs))

\* right-hand side of a cost constraint, divided by the coefficient of CP_k
CostOf(a, c) ==
    CostNF(RMul(c.rhs[1].k, RInv(c.lhs[1].k)), RMul(c.rhs[2].k, RInv(c.lhs[1].k)),
           RefVal(a, c.rhs[1].f[1]))

Holds(a, c) ==
    IF c.name = "cost"
    THEN RefVal(a, c.lhs[1].f[1]) = CostOf(a, c)
    ELSE CASE c.rel = "eq" -> Body(a, c)[1] = 0
           [] c.rel = "le" -> Body(a, c)[1] <= 0
           [] c.rel = "ge" -> Body(a, c)[1] >= 0

\* the big-M form of a disjunct's constraint whose indicator is 0:
\* -M <= lhs - rhs <= M.  For the cost row, lhs - rhs is
\* k * (CP_k - alpha*F**0.7 - gamma*F) with CP_k = a*F**0.7 + g*F at the same
\* outlet flow F of the unit (or one of the two is 0)
HoldsRelaxed(a, c, M) ==
    IF c.name = "cost"
    THEN \A cp \in {RefVal(a, c.lhs[1].f[1])} : \A ex \in {CostOf(a, c)} :
            \A F \in {IF ex[3][1] # 0 THEN ex[3] ELSE cp[3]} :
                \/ F[1] = 0
                \/ /\ CostAtMost(c.lhs[1].k, RSub(cp[1], ex[1]), RSub(cp[2], ex[2]), F, M)
                   /\ CostAtMost(c.lhs[1].k, RSub(ex[1], cp[1]), RSub(ex[2], cp[2]), F, M)
    ELSE RAbsLeInt(Body(a, c), M)

\* domain and bounds of every variable
DomainOK(a) ==
    \A v \in DOMAIN vars : \A ix \in DOMAIN a.val[v] :
        IF v = "CP_k"
        THEN \A j \in 1..3 : a.val[v][ix][j][1] >= 0
        ELSE /\ a.val[v][ix][1] >= 0
             /\ vars[v].bounds # <<>> =>
                  /\ RLe(RInt(vars[v].bounds[1]), a.val[v][ix])
                  /\ RLe(a.val[v][ix], RInt(vars[v].bounds[2]))

ContinuousOK(a) == \A n \in DOMAIN cons : Holds(a, cons[n])

\* the constraints whose left-hand side is a constant (discharge targets, inlet
\* balances, fraction sums)
Targets == {n \in DOMAIN cons : \A j \in DOMAIN cons[n].lhs : cons[n].lhs[j].f = <<>>}

\* sum of the indicator variables of a disjunction's members
IndicatorSum(a, members) == RSum([n \in DOMAIN members |-> RInt(a.y[members[n]])])[1]

\* the transformed disjunctive part: every exactly-one constraint holds, and
\* every big-M row holds (as the constraint itself where the indicator is 1,
\* within M where it is 0)
DisjunctiveOK(a) ==
    /\ DOMAIN disjuncts # {} => bigm > 0
    /\ \A j \in DOMAIN relaxation.xors : IndicatorSum(a, relaxation.xors[j]) = 1
    /\ \A n \in DOMAIN relaxation.rows :
          \A r \in {relaxation.rows[n]} :
              IF a.y[r.disjunct] = 1 THEN Holds(a, r.con)
              ELSE HoldsRelaxed(a, r.con, r.M)

ObjectiveValue(a) == SideValue(a, objectives[1].terms)

Feasible(d) == ContinuousOK(Point(d)) /\ DisjunctiveOK(Point(d)) /\ DomainOK(Asg(d))

UnitVec(n, j) == [o \in 1..n |-> IF o = j THEN ROne ELSE RZero]

\* every splitter sends all its flow to one mixer; a unit's outlet goes forward
UnitRoutes ==
    {[s \in 1..Len(sets.splitters) |-> UnitVec(Len(sets.mixers), r[s])] :
        r \in {q \in [1..Len(sets.splitters) -> 1..Len(sets.mixers)] :
                 \A s \in DOMAIN q : s > nIn => q[s] > s - nIn}}

\* routings with fractional splits, among them the best ones known
SeedRoutes ==
    CASE script = "simple" ->
           {<<UnitVec(3, 1), UnitVec(3, 2),
              <<RZero, Rat(15, 61), Rat(46, 61)>>, UnitVec(3, 3)>>}
      [] script = "small_lit" ->
           {<<<<RZero, Rat(39, 55), Rat(134, 495), Rat(2, 99)>>,
              <<RZero, Rat(488, 495), Rat(61, 4455), Rat(2, 4455)>>,
              <<RZero, Rat(304, 495), Rat(191, 495), RZero>>,
              UnitVec(4, 4), UnitVec(4, 3), UnitVec(4, 4)>>}
      [] script = "WTN_e8_CF" ->
           {<<UnitVec(4, 1), UnitVec(4, 1), UnitVec(4, 1),
              <<RZero, Rat(9, 10), RZero, Rat(1, 10)>>, UnitVec(4, 3), UnitVec(4, 4)>>,
            <<UnitVec(4, 1),
              <<Rat(7, 10), RZero, RZero, Rat(3, 10)>>,
              <<Rat(1, 2), Rat(7, 20), RZero, Rat(3, 20)>>,
              <<RZero, Rat(17, 20), Rat(1, 20), Rat(1, 10)>>,
              UnitVec(4, 3), UnitVec(4, 4)>>,
            <<UnitVec(4, 1),
              <<Rat(7, 10), RZero, RZero, Rat(3, 10)>>,
              <<Rat(47, 100), Rat(39, 100), RZero, Rat(7, 50)>>,
              <<RZero, Rat(169, 200), Rat(1, 20), Rat(21, 200)>>,
              <<RZero, RZero, Rat(199, 200), Rat(1, 200)>>, UnitVec(4, 4)>>}
      [] OTHER -> {}

\* the equipment options whose disjunct constrains unit k
OptionsOf(k) == {e \in DOMAIN disjuncts : UnitOfEquip(e) = k}

\* the removal ratios each unit works with
Opts ==
    IF script = "simple" THEN {[k \in 1..Len(sets.tru) |-> sets.tru[k]]}
    ELSE {o \in [1..Len(sets.tru) -> DOMAIN disjuncts] : \A k \in DOMAIN o : o[k] \in OptionsOf(k)}

\* indicator choices: the working equipment of every unit, or that with one
\* unit's indicator moved to another of its options or to none
IndChoices(o) ==
    IF script = "simple" THEN {[k \in DOMAIN o |-> 0]}
    ELSE {o} \cup UNION {{[o EXCEPT ![k] = x] : x \in OptionsOf(k) \cup {0}} : k \in DOMAIN o}

DemoSinks == Range(TruOrOutlet)

DemoDesigns ==
    {[ifrac |-> [x \in DemoSinks |-> IF x = i THEN ROne ELSE RZero],
      tfrac |-> [t \in Range(sets.treatment_units) |->
                   [x \in DemoSinks |->
                       IF (t = "unit1" /\ x = j) \/ (t = "unit2" /\ x = "out")
                       THEN ROne ELSE RZero]],
      ind |-> <<>>] :
        i \in DemoSinks, j \in {"unit2", "out"}}
    \cup {[ifrac |-> [x \in DemoSinks |-> IF x = "unit1" THEN Rat(9, 10)
                                          ELSE IF x = "unit2" THEN Rat(1, 10) ELSE RZero],
           tfrac |-> [t \in Range(sets.treatment_units) |->
                        [x \in DemoSinks |->
                            IF (t = "unit1" /\ x = "unit2") \/ (t = "unit2" /\ x = "out")
                            THEN ROne ELSE RZero]],
           ind |-> <<>>],
          [ifrac |-> [x \in DemoSinks |-> IF x = "unit1" THEN Rat(87, 100)
                                          ELSE IF x = "unit2" THEN Rat(2, 25) ELSE Rat(1, 20)],
           tfrac |-> [t \in Range(sets.treatment_units) |->
                        [x \in DemoSinks |->
                            IF t = "unit1" /\ x = "unit2" THEN Rat(49, 50)
                            ELSE IF t = "unit1" /\ x = "out" THEN Rat(1, 50)
                            ELSE IF t = "unit2" /\ x = "out" THEN ROne
                            ELSE RZero]],
           ind |-> <<>>],
          [ifrac |-> [x \in DemoSinks |-> IF x = "unit1" THEN Rat(87, 100)
                                          ELSE IF x = "unit2" THEN Rat(13, 100) ELSE RZero],
           tfrac |-> [t \in Range(sets.treatment_units) |->
                        [x \in DemoSinks |->
                            IF t = "unit1" /\ x = "unit2" THEN Rat(461, 500)
                            ELSE IF t = "unit1" /\ x = "out" THEN Rat(39, 500)
                            ELSE IF t = "unit2" /\ x = "out" THEN ROne
                            ELSE RZero]],
           ind |-> <<>>]}

\* designs of each network that satisfy the model handed to the solver (the
\* constraints in `first` are looked at before the others).  They show that
\* such assignments exist and what they can look like; the assignments that
\* satisfy the model form a continuum, of which these are some members
KnownFeasible ==
    IF script = "waterDemo"
    THEN {Asg(d) : d \in {x \in DemoDesigns : Feasible(x)}}
    ELSE UNION {
           LET base == Design(fr, o, o)
           IN IF (\A n \in first : Holds(Point(base), cons[n])) /\ ContinuousOK(Point(base))
              THEN {Asg([base EXCEPT !.ind = i]) :
                      i \in {x \in IndChoices(o) : Feasible([base EXCEPT !.ind = x])}}
              ELSE {} : fr \in UnitRoutes \cup SeedRoutes, o \in Opts, first \in {Targets}}

\* the model handed to the solver has an assignment that satisfies it
Solvable == KnownFeasible # {}

\* what the script holds once the solver has loaded an assignment
Loaded == [found |-> TRUE]

\* variant: the solve call is not left behind, so the model can be solved again
SolveAgain ==
    /\ Running /\ Stmt.op = "solve"
    /\ sol' = NoSol
    /\ solves' = solves + 1
    /\ UNCHANGED <<script, cfg, pc, status, err, sets, params, vars, cons, disjuncts,
                   disjunctions, objectives, bigm, relaxation, printed>>

\* results = opt.solve(model, ...): the solver stops without a solution, or
\* loads into the model an assignment of its variables that satisfies the
\* model's constraints, bounds and transformed disjunctions.  Which assignment
\* is the solver's choice (baron, run through gams; under reslim=120 in
\* WTN_e8_CF.py); the state records that one was loaded, and what holds of it
\* is what follows from the constraints of the model
Solve ==
    /\ Running /\ Stmt.op = "solve"
    /\ \/ sol' = NoSol
       \/ Solvable /\ sol' = Loaded
    /\ solves' = solves + 1
    /\ Step
    /\ UNCHANGED <<sets, params, vars, cons, disjuncts, disjunctions, objectives, bigm, relaxation,
                   printed>>

\* print results
PrintResults ==
    /\ Running /\ Stmt.op = "print"
    /\ printed' = Append(printed, Stmt.name)
    /\ Step
    /\ UNCHANGED <<sets, params, vars, cons, disjuncts, disjunctions, objectives, bigm, relaxation,
                   sol, solves>>

\* model.pprint()
PPrint ==
    /\ Running /\ Stmt.op = "pprint"
    /\ printed' = Append(printed, Stmt.name)
    /\ Step
    /\ UNCHANGED <<sets, params, vars, cons, disjuncts, disjunctions, objectives, bigm, relaxation,
                   sol, solves>>

Next ==
    \/ Compile
    \/ DeclareSet
    \/ DeclareParam
    \/ DeclareVar
    \/ DeclareConstraint
    \/ DeclareDisjunct
    \/ DeclareDisjunction
    \/ DeclareObjective
    \/ Return
    \/ Transform
    \/ Solve
    \/ PrintResults
    \/ PPrint

Spec == Init /\ [][Next]_vars_all

(* ------------------------------------------------------------------ *)
(* Edited topologies: the shipped tables with one edit, either the      *)
(* range of m.splitter_outs or one disjunction's list (emptied, or      *)
(* naming an equipment number that is not in m.allEquipment)            *)
(* ------------------------------------------------------------------ *)

MaxOutsEdit == 1

OutsEdits(s) ==
    IF s \in IndexBuilt
    THEN {[ShippedCfg(s) EXCEPT !.outs = n] :
            n \in (nSplitterOuts(s) - MaxOutsEdit)..(nSplitterOuts(s) + MaxOutsEdit)}
    ELSE {}

MenuEdits(s) ==
    IF s \in WithEquipment
    THEN {[ShippedCfg(s) EXCEPT !.menus[j] = <<>>] : j \in DOMAIN menus(s)}
         \cup {[ShippedCfg(s) EXCEPT !.menus[j] = Append(@, nAllEquipment(s) + 1)] :
                 j \in DOMAIN menus(s)}
    ELSE {}

TopoCfgs(s) == {ShippedCfg(s)} \cup OutsEdits(s) \cup MenuEdits(s)

InitTopo == \E s \in Scripts : \E c \in TopoCfgs(s) : InitWith(s, c)

SpecTopo == InitTopo /\ [][Next]_vars_all

(* ------------------------------------------------------------------ *)
(* What follows from the constraints.  A constraint lhs rel rhs stands *)
(* for the polynomial lhs - rhs in the model's variables.  A           *)
(* polynomial that is, coefficient by coefficient, a sum of multiples  *)
(* of equality constraints is 0 at every assignment that satisfies     *)
(* them; with nonnegative multiples of expressions that are <= 0       *)
(* added, it is <= 0 there.                                            *)
(* ------------------------------------------------------------------ *)

Negated(ts) == [n \in DOMAIN ts |-> [ts[n] EXCEPT !.k = RNeg(@)]]

\* lhs - rhs of a constraint
Residual(c) == c.lhs \o Negated(c.rhs)

\* the product of the term m and a list of terms
Times(m, ts) ==
    [n \in DOMAIN ts |-> [k |-> RMul(m.k, ts[n].k), f |-> m.f \o ts[n].f, pow |-> ts[n].pow]]

\* the sum of m * p over a list of pairs <<m, p>>
RECURSIVE Weighted(_)
Weighted(pairs) ==
    IF pairs = <<>> THEN <<>>
    ELSE Times(pairs[1][1], pairs[1][2]) \o Weighted(Tail(pairs))

\* the sum of m * (lhs - rhs) over a list of steps <<m, constraint>>
Combination(steps) == Weighted([n \in DOMAIN steps |-> <<steps[n][1], Residual(steps[n][2])>>])

\* the variables of a product, each with its exponent
Monomial(f) == [r \in Range(f) |-> Cardinality({j \in DOMAIN f : f[j] = r})]

\* the coefficients of the terms of ts whose monomial is m
CoefficientsOf(ts, m) ==
    [i \in DOMAIN SelectSeq(ts, LAMBDA t : Monomial(t.f) = m) |->
        SelectSeq(ts, LAMBDA t : Monomial(t.f) = m)[i].k]

\* every monomial of the polynomial p has coefficient 0
Vanishes(p) ==
    \A ts \in {p} :
        /\ \A n \in DOMAIN ts : ts[n].pow = ROne
        /\ \A m \in {Monomial(ts[n].f) : n \in DOMAIN ts} :
              \A cs \in {CoefficientsOf(ts, m)} : RSum(cs)[1] = 0

\* p = 0 wherever the equality constraints of the steps hold
Follows(p, steps) ==
    /\ \A n \in DOMAIN steps : steps[n][2].rel = "eq"
    /\ Vanishes(Negated(p) \o Combination(steps))

\* p <= 0 wherever the equality constraints of the steps hold and every
\* expression of `below` (pairs <<nonnegative constant, expression>>) is <= 0
FollowsLe(p, steps, below) ==
    /\ \A n \in DOMAIN steps : steps[n][2].rel = "eq"
    /\ \A n \in DOMAIN below : below[n][1].f = <<>> /\ below[n][1].k[1] >= 0
    /\ Vanishes(Negated(p) \o Combination(steps) \o Weighted(below))

\* an inequality constraint as an expression that is <= 0
LeForm(c) == IF c.rel = "le" THEN Residual(c) ELSE Negated(Residual(c))

\* -x, which is <= 0 for a variable declared within NonNegativeReals
NonNegForm(r) == <<TScaled(RNeg(ROne), r)>>

\* the constraints of the model emitted under a name for an index, in order
Rows(name, idx) == SelectSeq(cons, LAMBDA c : c.name = name /\ c.idx = idx)

\* one step: the term m times each of the given constraints
StepsOf(m, rows) == [n \in DOMAIN rows |-> <<m, rows[n]>>]

(* ------------------------------------------------------------------ *)
(* The carrier balances                                                *)
(* ------------------------------------------------------------------ *)

SplitFractionVars == {"split", "in_split_frac", "tru_split_frac"}

\* the variable references of a list of terms
RefsOfTerms(ts) == UNION {Range(ts[n].f) : n \in DOMAIN ts}

\* a constraint over carrier flows and split fractions only
IsCarrier(c) ==
    \A r \in RefsOfTerms(c.lhs) \cup RefsOfTerms(c.rhs) :
        r[1] \in SplitFractionVars \/ r[2][Len(r[2])] = "W"

\* the carrier equality of the terminal mixer
IsTerminal(c) == c.name = "mixer_balance" /\ c.idx[1] = Len(sets.mixers)

\* the carrier the inlet streams bring
InletCarrier ==
    IF script = "waterDemo"
    THEN RSum([n \in 1..Len(sets.inlet) |-> RInt(in_flow[sets.inlet[n]].W)])
    ELSE RSum([n \in 1..Len(sets.in_flows) |-> params.in_comp_flow[<<sets.in_flows[n], "W">>]])

\* the balances that pass the carrier on: every splitter's outlets against its
\* inlet, the ties of splitter outlets to mixer inlets, the mixers of the
\* units, the units themselves (in waterDemo.py: the inlet and unit splits with
\* their fraction sums, the unit mixers, the units, the outlet mixer)
CarrierBalanceNames ==
    {"split_mix", "mixer_balance", "splitter_balance", "total_tru_flow_balance",
     "inlet_mass_bal", "inlet_frac_sum", "tru_mix_bal", "tru_performance", "tru_split_bal",
     "tru_split_sum", "outlet_mix_bal"}

CarrierBalances ==
    SelectSeq(cons, LAMBDA c :
        c.name \in CarrierBalanceNames /\ IsCarrier(c) /\ ~IsTerminal(c))

\* what each balance is multiplied with when the balances are added up
CarrierMultiplier(c) ==
    CASE c.name \in {"split_mix", "mixer_balance", "outlet_mix_bal", "tru_performance"} ->
           TConst(ROne)
      [] c.name \in {"splitter_balance", "total_tru_flow_balance", "inlet_mass_bal",
                     "tru_mix_bal", "tru_split_bal"} -> TConst(RNeg(ROne))
      [] c.name = "inlet_frac_sum" -> TConst(InletCarrier)
      [] c.name = "tru_split_sum" -> TVar(Ref("flow_from_tru", <<c.idx[1], "W">>))

CarrierSteps ==
    [n \in DOMAIN CarrierBalances |-> <<CarrierMultiplier(CarrierBalances[n]), CarrierBalances[n]>>]

(* ------------------------------------------------------------------ *)
(* Properties                                                          *)
(* ------------------------------------------------------------------ *)

Solved == sol.found

\* the options listed by the disjunction of treatment unit k
UnitMenu(k) == Range(disjunctions[k].members)

\* OPU[k,c] = (1 - beta[e,c]) * IPU[k,c] for every component c
RemovalEquations(a, e, k) ==
    \A c \in Range(sets.comps) :
        a.val.OPU[<<k, c>>] = RMul(RSub(ROne, params.beta[<<e, c>>]), a.val.IPU[<<k, c>>])

CarrierThrough(a, k) == a.val.IPU[<<k, "W">>] = a.val.OPU[<<k, "W">>]

\* OPU[k,c] - (1 - beta[e,c]) * IPU[k,c]
RemovalPolynomial(e, k, c) ==
    <<TVar(Ref("OPU", <<k, c>>)),
      TScaled(RNeg(RSub(ROne, params.beta[<<e, c>>])), Ref("IPU", <<k, c>>))>>

\* IPU[k,'W'] - OPU[k,'W']
CarrierPolynomial(k) ==
    <<TVar(Ref("IPU", <<k, "W">>)), TScaled(RNeg(ROne), Ref("OPU", <<k, "W">>))>>

\* the indicator values of the options of unit k that the xor constraint of
\* the unit's disjunction admits
Selections(k) ==
    {y \in [UnitMenu(k) -> {0, 1}] : IndicatorSum([y |-> y], disjunctions[k].members) = 1}

\* C1 (as amended): in every solution the solver loads, every treatment unit has
\* exactly one option of its menu selected (indicator 1), the selected option's
\* removal-ratio equations hold for every component, and the carrier flow into
\* the unit equals the carrier flow out of it: the model is solved in its
\* big-M form, the xor constraint of the unit's disjunction admits exactly one
\* indicator at 1, the constraints of each option's disjunct are the removal
\* equations of that option on the unit's own flows, and the carrier equality
\* is a constraint of the model.
C1_SelectedOptionRemoval ==
    (Solved /\ script \in WithEquipment) =>
        /\ bigm > 0
        /\ \A k \in DOMAIN sets.tru :
              /\ Selections(k) # {}
              /\ \A y \in Selections(k) : Cardinality({e \in UnitMenu(k) : y[e] = 1}) = 1
              /\ \A e \in UnitMenu(k) : \A c \in Range(sets.comps) :
                    \E n \in DOMAIN disjuncts[e] :
                        Follows(RemovalPolynomial(e, k, c), <<<<TConst(ROne), disjuncts[e][n]>>>>)
              /\ Follows(CarrierPolynomial(k),
                         StepsOf(TConst(ROne), Rows("total_tru_flow_balance", <<k>>)))
              /\ Len(Rows("total_tru_flow_balance", <<k>>)) = 1

\* a solution was loaded, and among the known feasible assignments is one in
\* which a unit with a selected option treats a positive flow
C1_Witness ==
    /\ Solved /\ script \in WithEquipment
    /\ \E a \in KnownFeasible : \E k \in DOMAIN sets.tru :
          /\ a.val.IPU[<<k, "A">>][1] > 0
          /\ \E e \in UnitMenu(k) : a.y[e] = 1 /\ RemovalEquations(a, e, k)

\* C1 as stated: at an assignment that satisfies the model the removal-ratio
\* equations hold for the chosen option and for no other option of the unit.
C1_ExactlyOneOptionHolds ==
    (Solved /\ script \in WithEquipment) =>
        \A a \in KnownFeasible : \A k \in DOMAIN sets.tru :
            /\ Cardinality({e \in UnitMenu(k) : RemovalEquations(a, e, k)}) = 1
            /\ CarrierThrough(a, k)

\* C2 as stated: the balance of the last mixer is an equality for the carrier 'W'
\* and only an upper bound (target >= inbound sum) for every other component.
C2_TerminalPollutantsBounded ==
    (Built /\ script \in IndexBuilt) =>
        \A n \in DOMAIN cons :
            (cons[n].name = "mixer_balance" /\ cons[n].idx[1] = Len(sets.mixers)) =>
                /\ cons[n].lhs = <<TConst(RInt(out_comp_flow(cons[n].idx[2])))>>
                /\ cons[n].rel = (IF cons[n].idx[2] = "W" THEN "eq" ELSE "ge")

\* the constraints emitted under a name for an index
Hits(name, idx) == {n \in DOMAIN cons : cons[n].name = name /\ cons[n].idx = idx}

\* C3: a built model holds, for every non-terminal mixer k and component c,
\* exactly one mixer balance, the equality IPU[k,c] = sum over all mixer inlets i
\* of M_k[k,i,c]; only the highest-indexed mixer gets the discharge-target form
\* (constant target against the inbound sum).  In waterDemo.py every treatment
\* unit and component has exactly one tru_mix_bal equality of the inbound flows
\* and flow_into_tru.
C3_NonTerminalMixerEqualities ==
    Built =>
        /\ script \in IndexBuilt =>
             \A k \in DOMAIN sets.mixers : \A c \in Range(sets.comps) :
                 /\ Cardinality(Hits("mixer_balance", <<k, c>>)) = 1
                 /\ \A n \in Hits("mixer_balance", <<k, c>>) :
                      /\ cons[n].rhs = [i \in 1..Len(sets.mixer_ins) |->
                                          TVar(Ref("M_k", <<k, sets.mixer_ins[i], c>>))]
                      /\ IF k < Len(sets.mixers)
                         THEN /\ cons[n].rel = "eq"
                              /\ cons[n].lhs = <<TVar(Ref("IPU", <<k, c>>))>>
                         ELSE cons[n].lhs = <<TConst(RInt(out_comp_flow(c)))>>
        /\ script = "waterDemo" =>
             \A t \in Range(sets.treatment_units) : \A c \in Range(sets.Comps) :
                 /\ Cardinality(Hits("tru_mix_bal", <<t, c>>)) = 1
                 /\ \A n \in Hits("tru_mix_bal", <<t, c>>) :
                      /\ cons[n].rel = "eq"
                      /\ cons[n].lhs = [i \in 1..Len(InletOrTru) |->
                                          TVar(Ref("flow", <<InletOrTru[i], t, c>>))]
                      /\ cons[n].rhs = <<TVar(Ref("flow_into_tru", <<t, c>>))>>

\* a built index-set model with the balance of a non-terminal mixer emitted
C3_Witness ==
    /\ Built /\ script \in IndexBuilt
    /\ \E n \in DOMAIN cons :
          /\ cons[n].name = "mixer_balance"
          /\ cons[n].idx[1] = Len(sets.mixers) - 1
          /\ cons[n].lhs = <<TVar(Ref("IPU", cons[n].idx))>>

\* the sum of a sequence of split-fraction variables
FractionTerms(v, s, outs) == [n \in 1..Len(outs) |-> TVar(Ref(v, s \o <<outs[n]>>))]

FractionSum(a, v, s, outs) == RSum([n \in 1..Len(outs) |-> a.val[v][s \o <<outs[n]>>]])

\* C4: a built model holds exactly one fraction-sum constraint per splitter,
\* equating the sum of the split fractions over all of the splitter's outlets
\* with 1 (in waterDemo.py: inlet_frac_sum for the inlet splitter and
\* tru_split_sum[t] for every unit's splitter); so in every loaded solution
\* every splitter's outlet fractions sum to 1: (sum of the fractions) - 1 is
\* that constraint.
C4_SplitFractionsSumToOne ==
    /\ (Built /\ script \in IndexBuilt) =>
          \A s \in Range(sets.splitters) :
              /\ Cardinality(Hits("split_fraction_balance", <<s>>)) = 1
              /\ \A n \in Hits("split_fraction_balance", <<s>>) :
                    /\ cons[n].rel = "eq"
                    /\ cons[n].lhs = <<TConst(ROne)>>
                    /\ cons[n].rhs = FractionTerms("split", <<s>>, sets.splitter_outs)
              /\ Solved =>
                    Follows(FractionTerms("split", <<s>>, sets.splitter_outs)
                              \o <<TConst(RNeg(ROne))>>,
                            StepsOf(TConst(RNeg(ROne)), Rows("split_fraction_balance", <<s>>)))
    /\ (Built /\ script = "waterDemo") =>
          /\ Cardinality(Hits("inlet_frac_sum", <<>>)) = 1
          /\ \A n \in Hits("inlet_frac_sum", <<>>) :
                /\ cons[n].rel = "eq"
                /\ cons[n].lhs = FractionTerms("in_split_frac", <<>>, TruOrOutlet)
                /\ cons[n].rhs = <<TConst(ROne)>>
          /\ Solved =>
                Follows(FractionTerms("in_split_frac", <<>>, TruOrOutlet) \o <<TConst(RNeg(ROne))>>,
                        StepsOf(TConst(ROne), Rows("inlet_frac_sum", <<>>)))
          /\ \A t \in Range(sets.treatment_units) :
                /\ Cardinality(Hits("tru_split_sum", <<t>>)) = 1
                /\ \A n \in Hits("tru_split_sum", <<t>>) :
                      /\ cons[n].rel = "eq"
                      /\ cons[n].lhs = FractionTerms("tru_split_frac", <<t>>, TruOrOutlet)
                      /\ cons[n].rhs = <<TConst(ROne)>>
                /\ Solved =>
                      Follows(FractionTerms("tru_split_frac", <<t>>, TruOrOutlet)
                                \o <<TConst(RNeg(ROne))>>,
                              StepsOf(TConst(ROne), Rows("tru_split_sum", <<t>>)))

\* a solution was loaded, and among the known feasible assignments is one in
\* which a splitter divides its flow between two outlets, its fractions summing
\* to 1
C4_Witness ==
    /\ Solved /\ script \in IndexBuilt
    /\ \E a \in KnownFeasible :
          \E s \in Range(sets.splitters) : \E o \in Range(sets.splitter_outs) :
              /\ a.val.split[<<s, o>>][1] > 0
              /\ a.val.split[<<s, o>>] # ROne
              /\ FractionSum(a, "split", <<s>>, sets.splitter_outs) = ROne

\* the component flow entering splitter s
SplitterInlet(a, s, c) ==
    IF s <= Len(sets.in_flows) THEN RInt(in_comp_flow(s, c))
    ELSE a.val.OPU[<<s - Len(sets.in_flows), c>>]

\* the fraction r times the component flow entering splitter s
SplitterInletTimes(r, s, c) ==
    IF s <= Len(sets.in_flows) THEN <<TScaled(RInt(in_comp_flow(s, c)), r)>>
    ELSE <<TProd(r, Ref("OPU", <<s - Len(sets.in_flows), c>>))>>

\* C5: a built model holds, for every splitter s, outlet o and component c,
\* exactly one constraint S_k[s,o,c] = split[s,o] * inlet, the inlet being the
\* parameter in_comp_flow[s,c] when s <= number of inlet streams and the variable
\* OPU[s - number of inlet streams, c] otherwise (in waterDemo.py:
\* flow_from_tru[t,c] * tru_split_frac[t,sink] = flow[t,sink,c]); so the
\* identity holds in every loaded solution: outlet flow - fraction * inlet
\* flow is that constraint.
C5_FlowSplitBilinear ==
    /\ (Built /\ script \in IndexBuilt) =>
          \A s \in Range(sets.splitters) : \A o \in Range(sets.splitter_outs) :
            \A c \in Range(sets.comps) :
              /\ Cardinality(Hits("flow_split_balance", <<s, o, c>>)) = 1
              /\ \A n \in Hits("flow_split_balance", <<s, o, c>>) :
                    /\ cons[n].rel = "eq"
                    /\ cons[n].lhs = <<TVar(Ref("S_k", <<s, o, c>>))>>
                    /\ cons[n].rhs =
                         (IF s <= Len(sets.in_flows)
                          THEN <<TScaled(RInt(in_comp_flow(s, c)), Ref("split", <<s, o>>))>>
                          ELSE <<TProd(Ref("split", <<s, o>>),
                                       Ref("OPU", <<s - Len(sets.in_flows), c>>))>>)
              /\ Solved =>
                    Follows(<<TVar(Ref("S_k", <<s, o, c>>)),
                              Negated(SplitterInletTimes(Ref("split", <<s, o>>), s, c))[1]>>,
                            StepsOf(TConst(ROne), Rows("flow_split_balance", <<s, o, c>>)))
    /\ (Built /\ script = "waterDemo") =>
          \A t \in Range(sets.treatment_units) : \A x \in Range(TruOrOutlet) :
            \A c \in Range(sets.Comps) :
              /\ Cardinality(Hits("tru_split_bal", <<t, x, c>>)) = 1
              /\ \A n \in Hits("tru_split_bal", <<t, x, c>>) :
                    /\ cons[n].rel = "eq"
                    /\ cons[n].lhs = <<TProd(Ref("flow_from_tru", <<t, c>>),
                                             Ref("tru_split_frac", <<t, x>>))>>
                    /\ cons[n].rhs = <<TVar(Ref("flow", <<t, x, c>>))>>
              /\ Solved =>
                    Follows(<<TVar(Ref("flow", <<t, x, c>>)),
                              Negated(<<TProd(Ref("tru_split_frac", <<t, x>>),
                                              Ref("flow_from_tru", <<t, c>>))>>)[1]>>,
                            StepsOf(TConst(RNeg(ROne)), Rows("tru_split_bal", <<t, x, c>>)))

\* a solution was loaded, and among the known feasible assignments is one in
\* which a unit's splitter sends part of a positive outlet flow to an outlet
C5_Witness ==
    /\ Solved /\ script \in IndexBuilt
    /\ \E a \in KnownFeasible :
          \E s \in Range(sets.splitters) : \E o \in Range(sets.splitter_outs) :
              /\ s > Len(sets.in_flows)
              /\ a.val.split[<<s, o>>] # ROne
              /\ a.val.S_k[<<s, o, "A">>][1] > 0
              /\ a.val.S_k[<<s, o, "A">>] = RMul(a.val.split[<<s, o>>], SplitterInlet(a, s, "A"))

\* every Disjunction statement of the script has been executed
DisjunctionsDeclared ==
    /\ \E n \in DOMAIN Program(script) : Program(script)[n].op = "disjunction"
    /\ \A n \in DOMAIN Program(script) : Program(script)[n].op = "disjunction" => pc > n

\* the disjunctions that list disjunct e
ListedIn(e) ==
    {j \in DOMAIN disjunctions :
        \E n \in DOMAIN disjunctions[j].members : disjunctions[j].members[n] = e}

\* the places (disjunction, position) at which disjunct e is listed
Listings(e) ==
    {p \in (DOMAIN disjunctions) \X (1..Cardinality(DOMAIN disjuncts)) :
        /\ p[2] \in DOMAIN disjunctions[p[1]].members
        /\ disjunctions[p[1]].members[p[2]] = e}

\* C6: once the disjunctions are declared, every declared Disjunct is listed
\* in exactly one Disjunction, once: none is listed by two, none is left out,
\* and every listed member is a declared Disjunct.
C6_EveryDisjunctInOneDisjunction ==
    DisjunctionsDeclared =>
        /\ \A e \in DOMAIN disjuncts :
              Cardinality(ListedIn(e)) = 1 /\ Cardinality(Listings(e)) = 1
        /\ \A j \in DOMAIN disjunctions : UnitMenu(j) \subseteq DOMAIN disjuncts

\* every disjunction of small_lit is declared, over its nine disjuncts
C6_Witness ==
    /\ DisjunctionsDeclared /\ script = "small_lit"
    /\ Cardinality(DOMAIN disjuncts) = 9 /\ Len(disjunctions) = 3

\* the total carrier flow into the treatment units at an assignment
UnitInletCarrier(a) ==
    IF script = "waterDemo"
    THEN RSum([n \in 1..Len(sets.treatment_units) |->
                 a.val.flow_into_tru[<<sets.treatment_units[n], "W">>]])
    ELSE RSum([n \in 1..Len(sets.tru) |-> a.val.IPU[<<sets.tru[n], "W">>]])

\* the same total as an expression
UnitInletCarrierTerms ==
    IF script = "waterDemo"
    THEN [n \in 1..Len(sets.treatment_units) |->
             TVar(Ref("flow_into_tru", <<sets.treatment_units[n], "W">>))]
    ELSE [n \in 1..Len(sets.tru) |-> TVar(Ref("IPU", <<sets.tru[n], "W">>))]

\* the carrier balances of the units whose outlet flow the objective sums
ObjectiveBalances ==
    SelectSeq(cons, LAMBDA c :
        /\ c.name = "total_tru_flow_balance"
        /\ \E n \in DOMAIN objectives[1].terms :
              objectives[1].terms[n].f = <<Ref("OPU", <<c.idx[1], "W">>)>>)

FlowVariants == {"WTN_e8_CF", "simple", "waterDemo"}

\* the units an objective sums over
ObjectiveUnits == IF script = "waterDemo" THEN sets.treatment_units ELSE sets.tru

\* C7: a built model carries exactly one objective; it is a sum over the
\* treatment units of one term per unit, either the unit's carrier-'W' flow
\* variable (flow variants) or the unit's cost variable CP_k (cost variant); in a
\* flow variant the objective's value at every loaded solution equals the total
\* carrier flow into the treatment units: the two are the same expression, or
\* differ by the units' carrier balances.
C7_OneObjective ==
    Built =>
        /\ Len(objectives) = 1
        /\ Len(objectives[1].terms) = Len(ObjectiveUnits)
        /\ \A n \in DOMAIN objectives[1].terms :
              /\ objectives[1].terms[n].k = ROne
              /\ Len(objectives[1].terms[n].f) = 1
              /\ IF script \in FlowVariants
                 THEN /\ objectives[1].terms[n].f[1][1] \in {"IPU", "OPU", "flow_into_tru"}
                      /\ objectives[1].terms[n].f[1][2] = <<ObjectiveUnits[n], "W">>
                 ELSE objectives[1].terms[n].f[1] = Ref("CP_k", <<ObjectiveUnits[n]>>)
        /\ (Solved /\ script \in FlowVariants) =>
              Follows(objectives[1].terms \o Negated(UnitInletCarrierTerms),
                      StepsOf(TConst(RNeg(ROne)), ObjectiveBalances))

\* a solution of the script whose objective sums the units' outlet carrier
\* flows was loaded, and a known feasible assignment has a positive objective
\* value, equal to the carrier flow into the units
C7_Witness ==
    /\ Solved /\ script = "simple"
    /\ objectives[1].terms[1].f[1][1] = "OPU"
    /\ \E a \in KnownFeasible :
          ObjectiveValue(a)[1] > 0 /\ ObjectiveValue(a) = UnitInletCarrier(a)

\* a disjunction of the script lists no option
ZeroOptionUnit ==
    /\ script \in WithEquipment
    /\ \E j \in DOMAIN cfg.menus : cfg.menus[j] = <<>>

\* C8 as stated: when a treatment unit's disjunction lists no equipment option,
\* the build never returns a model and the solver is never called; the only
\* way the script leaves is a ConfigurationError.
C8_ZeroOptionsNeverSolved ==
    ZeroOptionUnit =>
        /\ ~Built
        /\ solves = 0
        /\ sol = NoSol
        /\ status = "error" => err = "ConfigurationError"

\* a disjunction names an equipment number outside m.allEquipment, or the range
\* of m.splitter_outs differs from the number of mixers it is indexed with
Malformed ==
    /\ script \in IndexBuilt
    /\ \/ cfg.outs # nMixers(script)
       \/ /\ script \in WithEquipment
          /\ \E j \in DOMAIN cfg.menus : \E n \in DOMAIN cfg.menus[j] :
                cfg.menus[j][n] \notin 1..nAllEquipment(script)

\* C9 as stated: a malformed topology never yields a built model, and when the
\* build fails it fails with ConfigurationError with no constraint emitted.
C9_FailsBeforeAnyConstraint ==
    Malformed =>
        /\ ~Built
        /\ status = "error" => (err = "ConfigurationError" /\ cons = <<>>)

\* C10: in a built model every split-fraction variable has bounds (0, 1), every
\* variable has the domain NonNegativeReals, and every inlet stream has an entry
\* for every declared component, so every inlet component flow is defined.
C10_BoundsAndInletData ==
    Built =>
        /\ \A v \in DOMAIN vars :
              /\ vars[v].domain = "NonNegativeReals"
              /\ v \in SplitFractionVars => vars[v].bounds = <<0, 1>>
        /\ SplitFractionVars \cap DOMAIN vars # {}
        /\ script \in IndexBuilt =>
              \A i \in Range(sets.in_flows) : \A c \in Range(sets.comps) :
                  /\ in_comp_flow_defined(i, c)
                  /\ params.in_comp_flow[<<i, c>>] = RInt(in_flows(script)[i] * in_concs(script)[i][c])
        /\ script = "waterDemo" =>
              \A i \in Range(sets.inlet) : \A c \in Range(sets.Comps) :
                  i \in DOMAIN in_flow /\ c \in DOMAIN in_flow[i]

\* a built cost model: split fractions, flows and the cost variable are declared
C10_Witness ==
    /\ Built /\ script = "small_lit"
    /\ {"split", "S_k", "M_k", "IPU", "OPU", "CP_k"} \subseteq DOMAIN vars
    /\ vars["split"].bounds = <<0, 1>>

\* the splitters whose balance is fed by inlet data
InletBalanced ==
    {cons[n].idx[1] : n \in {i \in DOMAIN cons :
        /\ cons[i].name = "splitter_balance"
        /\ cons[i].idx \in DOMAIN params.in_comp_flow
        /\ cons[i].lhs = <<TConst(params.in_comp_flow[cons[i].idx])>>}}

\* the same flow as an expression
OutletTerms(c) ==
    IF script = "waterDemo" THEN <<TVar(Ref("flow_out", <<c>>))>>
    ELSE MixerInletSum(Len(sets.mixers), c)

\* the component flow arriving at the terminal mixer / outlet
OutletFlow(a, c) ==
    IF script = "waterDemo" THEN a.val.flow_out[<<c>>]
    ELSE RSum([n \in 1..Len(sets.mixer_ins) |->
                  a.val.M_k[<<Len(sets.mixers), sets.mixer_ins[n], c>>]])

\* C12: for the example data (two inlets of 40 t/h with 100/20 and 15/200 ppm
\* of A/B, two units removing 95% of A and 97.6% of B, limit 10 ppm), the
\* built model has an inlet balance for each of the 2 inlet streams and one
\* fraction-sum constraint per splitter, and every solution the solver loads
\* has a total outlet flow of 80 t/h with at most 800 of A and of B: in
\* simpleWaterTreatmentNetwork.py the terminal mixer's balances say so, in
\* waterDemo.py the carrier balances add up to flow_out['W'] = 80 and
\* outlet_mix_limit bounds flow_out of A and of B.
C12_ExampleScenario ==
    /\ (Built /\ script = "simple") =>
          /\ params.in_comp_flow = (<<1, "A">> :> RInt(4000) @@ <<1, "B">> :> RInt(800)
                                    @@ <<1, "W">> :> RInt(40) @@ <<2, "A">> :> RInt(600)
                                    @@ <<2, "B">> :> RInt(8000) @@ <<2, "W">> :> RInt(40))
          /\ params.beta = (<<1, "A">> :> Rat(95, 100) @@ <<1, "B">> :> RZero
                            @@ <<1, "W">> :> RZero @@ <<2, "A">> :> RZero
                            @@ <<2, "B">> :> Rat(976, 1000) @@ <<2, "W">> :> RZero)
          /\ params.out_comp_flow = (<<"A">> :> RInt(800) @@ <<"B">> :> RInt(800)
                                     @@ <<"W">> :> RInt(80))
          /\ InletBalanced = {1, 2}
          /\ \A sp \in InletBalanced : \A c \in Range(sets.comps) :
                Cardinality(Hits("splitter_balance", <<sp, c>>)) = 1
          /\ Cardinality({n \in DOMAIN cons : cons[n].name = "split_fraction_balance"})
                = Len(sets.splitters)
          /\ \A sp \in Range(sets.splitters) :
                Cardinality(Hits("split_fraction_balance", <<sp>>)) = 1
    /\ (Built /\ script = "waterDemo") =>
          /\ {cons[n].idx[1] : n \in {i \in DOMAIN cons : cons[i].name = "inlet_mass_bal"}}
                = {"in1", "in2"}
          /\ Cardinality(Hits("inlet_frac_sum", <<>>)) = 1
          /\ Cardinality({n \in DOMAIN cons : cons[n].name = "tru_split_sum"}) = 2
          /\ \A t \in Range(sets.treatment_units) :
                Cardinality(Hits("tru_split_sum", <<t>>)) = 1
    /\ (Solved /\ script = "simple") =>
          /\ Follows(OutletTerms("W") \o <<TConst(RInt(-80))>>,
                     StepsOf(TConst(RNeg(ROne)),
                             Rows("mixer_balance", <<Len(sets.mixers), "W">>)))
          /\ \A c \in {"A", "B"} :
                FollowsLe(OutletTerms(c) \o <<TConst(RInt(-800))>>,
                          StepsOf(TConst(RNeg(ROne)),
                                  Rows("mixer_balance", <<Len(sets.mixers), c>>)),
                          <<>>)
    /\ (Solved /\ script = "waterDemo") =>
          /\ Follows(OutletTerms("W") \o <<TConst(RInt(-80))>>, CarrierSteps)
          /\ \A c \in {"A", "B"} :
                /\ Len(Rows("outlet_mix_limit", <<c>>)) = 1
                /\ \A n \in DOMAIN Rows("outlet_mix_limit", <<c>>) :
                      /\ Rows("outlet_mix_limit", <<c>>)[n].rel = "le"
                      /\ FollowsLe(OutletTerms(c) \o <<TConst(RInt(-800))>>, <<>>,
                                   <<<<TConst(ROne), LeForm(Rows("outlet_mix_limit", <<c>>)[n])>>>>)

\* a solution of the example network was loaded, and a known feasible
\* assignment has 80 t/h leaving, with A and B within the discharge limit
C12_Witness ==
    /\ Solved /\ script = "simple"
    /\ \E a \in KnownFeasible :
          /\ OutletFlow(a, "W") = RInt(80)
          /\ RLe(OutletFlow(a, "A"), RInt(800))
          /\ RLe(OutletFlow(a, "B"), RInt(800))

\* the same for the flow-based formulation of the example
C12_DemoFeasible ==
    /\ Solved /\ script = "waterDemo"
    /\ \E a \in KnownFeasible :
          /\ OutletFlow(a, "W") = RInt(80)
          /\ RLe(OutletFlow(a, "A"), RInt(800))

\* the script has a big-M transformation step
HasTransform == \E n \in DOMAIN Program(script) : Program(script)[n].op = "transform"

\* the script has run to its end
Finished == status = "running" /\ pc = Len(Program(script)) + 1

C13_Order ==
    /\ ~Built => (bigm = 0 /\ solves = 0 /\ sol = NoSol /\ printed = <<>>)
    /\ bigm # 0 => (Built /\ HasTransform /\ bigm = bigM(script))
    /\ solves > 0 => (Built /\ (HasTransform => bigm = bigM(script)))
    /\ solves <= 1
    /\ printed # <<>> => solves = 1
    /\ Finished => (Built /\ solves = 1)

C13_Steps ==
    /\ Len(cons') >= Len(cons) /\ SubSeq(cons', 1, Len(cons)) = cons
    /\ \A e \in DOMAIN disjuncts : e \in DOMAIN disjuncts' /\
          SubSeq(disjuncts'[e], 1, Len(disjuncts[e])) = disjuncts[e]
    /\ bigm' # bigm => (Built /\ Stmt.op = "transform" /\ solves = 0)
    /\ solves' # solves => (Built /\ Stmt.op = "solve" /\ solves' = 1
                             /\ (HasTransform => bigm = bigM(script)))
    /\ printed' # printed => solves = 1

\* C13: every script runs build, then the big-M transformation where it has
\* one, then solve, then the reports: while the builder runs no constraint it
\* emitted is dropped or changed and no big-M value is set; the transformation
\* happens only after the builder returned and before the solve; the solve
\* happens on a returned (and, where applicable, transformed) model, once; a
\* script that runs to its end has solved its model exactly once.
C13_PipelineOrder == [](C13_Order) /\ [][C13_Steps]_vars_all

\* a script at its end: built, transformed, solved once, reported
C13_Witness ==
    /\ Finished /\ script = "small_lit"
    /\ bigm = 1000000 /\ solves = 1 /\ Len(printed) = 2

TiedBy(r) ==
    {n \in DOMAIN cons :
        /\ cons[n].name = "split_mix"
        /\ (cons[n].lhs = <<TVar(r)>> \/ cons[n].rhs = <<TVar(r)>>)}

IndexSetsDeclared == {"in_flows", "mixers", "mixer_ins", "splitters", "splitter_outs", "tru"}
                        \subseteq DOMAIN sets

\* C15: in the index-built scripts |mixer_ins| = |splitters|, |splitter_outs| =
\* |mixers|, |splitters| = |in_flows| + |tru| and |mixers| = |tru| + 1; no
\* constraint rule looks a variable up outside its declared index set (the
\* build never raises); in the built model every M_k[m,i,c] occurs in exactly
\* one split_mix constraint, M_k[m,i,c] == S_k[i,m,c], and every S_k[s,o,c]
\* occurs in exactly one split_mix constraint, M_k[o,s,c] == S_k[s,o,c].
C15_IndexSetsConsistent ==
    script \in IndexBuilt =>
        /\ status = "running"
        /\ IndexSetsDeclared =>
              /\ Len(sets.mixer_ins) = Len(sets.splitters)
              /\ Len(sets.splitter_outs) = Len(sets.mixers)
              /\ Len(sets.splitters) = Len(sets.in_flows) + Len(sets.tru)
              /\ Len(sets.mixers) = Len(sets.tru) + 1
        /\ LookupsOK(cons)
        /\ \A e \in DOMAIN disjuncts : LookupsOK(disjuncts[e])
        /\ Built =>
              /\ \A ix \in Tuples(vars.M_k.index) :
                    /\ Cardinality(TiedBy(Ref("M_k", ix))) = 1
                    /\ \A n \in TiedBy(Ref("M_k", ix)) :
                          cons[n] = split_mix(ix[2], ix[1], ix[3])
              /\ \A ix \in Tuples(vars.S_k.index) :
                    /\ Cardinality(TiedBy(Ref("S_k", ix))) = 1
                    /\ \A n \in TiedBy(Ref("S_k", ix)) :
                          cons[n] = split_mix(ix[1], ix[2], ix[3])

\* a built network whose unit-outlet splitter 6 is tied to mixer inlet 6 and
\* whose splitter balance reads OPU of unit 6 - 3
C15_Witness ==
    /\ Built /\ script = "WTN_e8_CF"
    /\ Cardinality(TiedBy(Ref("M_k", <<4, 6, "W">>))) = 1
    /\ \E n \in DOMAIN cons :
          /\ cons[n].name = "splitter_balance"
          /\ cons[n].lhs = <<TVar(Ref("OPU", <<3, "W">>))>>

\* the treatment units whose variables occur in the constraints of disjunct e
UnitsConstrainedBy(e) ==
    {r[2][1] : r \in UNION {RefsOfTerms(disjuncts[e][n].lhs) \cup RefsOfTerms(disjuncts[e][n].rhs) :
                              n \in DOMAIN disjuncts[e]}}

\* C16: for every equipment option e listed by the Disjunction of treatment
\* unit j (TX, TXX, TXXX in that order), every variable in e's disjunct
\* constraints (IPU, OPU and, in small_lit, CP_k) is the one of unit j, j is
\* ((e-1)//2)+1 in WTN_e8_CF and ((e-1)//3)+1 in small_lit, and in small_lit j
\* is the unit column of e's equipment_info row and e's cost constraint has
\* CP_k[j] on its left.
C16_OptionUnitAgreement ==
    script \in WithEquipment =>
        \A j \in DOMAIN disjunctions : \A e \in UnitMenu(j) :
            /\ UnitOfEquip(e) = j
            /\ j = ((e - 1) \div (IF script = "small_lit" THEN 3 ELSE 2)) + 1
            /\ UnitsConstrainedBy(e) = {j}
            /\ script = "small_lit" =>
                  /\ equipment_info(script)[e].unit = j
                  /\ Cardinality({n \in DOMAIN disjuncts[e] : disjuncts[e][n].name = "cost"}) = 1
                  /\ \A n \in DOMAIN disjuncts[e] : disjuncts[e][n].name = "cost" =>
                        RefsOfTerms(disjuncts[e][n].lhs) = {Ref("CP_k", <<j>>)}

\* all three disjunctions of small_lit are declared; option 8 belongs to unit 3
C16_Witness ==
    /\ script = "small_lit" /\ Len(disjunctions) = 3
    /\ 8 \in UnitMenu(3)
    /\ UnitsConstrainedBy(8) = {3}

\* one unit's carrier flows <<into, out of>>, the other units idle
WOnly(x) == [n \in 1..Len(sets.comps) |-> IF sets.comps[n] = "W" THEN x ELSE RZero]

\* an assignment of the carrier flows: the split fractions fr and, for every
\* unit k, w[k] = <<carrier into unit k, carrier out of unit k>>
CarrierDesign(fr, w) ==
    [frac |-> fr, opt |-> <<>>, ind |-> <<>>,
     io |-> [k \in 1..Len(sets.tru) |-> <<WOnly(w[k][1]), WOnly(w[k][2])>>]]

DemoCarrierDesign(fr, w) ==
    [ifrac |-> fr.i, tfrac |-> fr.t, ind |-> <<>>,
     into |-> [t \in Range(sets.treatment_units) |-> [c \in {"W"} |-> w[t][1]]],
     from |-> [t \in Range(sets.treatment_units) |-> [c \in {"W"} |-> w[t][2]]]]

CarrierPoint(fr, w) ==
    [found |-> FALSE,
     design |-> IF script = "waterDemo" THEN DemoCarrierDesign(fr, w) ELSE CarrierDesign(fr, w)]

DemoFractions(u1, u2, out) ==
    [x \in DemoSinks |-> IF x = "unit1" THEN u1 ELSE IF x = "unit2" THEN u2 ELSE out]

\* carrier assignments with recycles and with fractional splits
RecycleDesigns ==
    CASE script \in WithEquipment ->
           {\* unit 1 sends 9/10 on to unit 2
            CarrierPoint(<<UnitVec(4, 1), UnitVec(4, 1), UnitVec(4, 1),
                           <<RZero, Rat(9, 10), RZero, Rat(1, 10)>>, UnitVec(4, 3),
                           UnitVec(4, 4)>>,
                         <<<<RInt(40), RInt(40)>>, <<RInt(36), RInt(36)>>,
                           <<RInt(36), RInt(36)>>>>),
            \* unit 3 sends half of its outlet back to unit 1
            CarrierPoint(<<UnitVec(4, 1), UnitVec(4, 1), UnitVec(4, 1),
                           UnitVec(4, 2), UnitVec(4, 3),
                           <<Rat(1, 2), RZero, RZero, Rat(1, 2)>>>>,
                         <<<<RInt(80), RInt(80)>>, <<RInt(80), RInt(80)>>,
                           <<RInt(80), RInt(80)>>>>),
            \* half of inlet 1 passes through unit 1
            CarrierPoint(<<<<Rat(1, 2), RZero, RZero, Rat(1, 2)>>, UnitVec(4, 4),
                           UnitVec(4, 4), UnitVec(4, 4), UnitVec(4, 4), UnitVec(4, 4)>>,
                         <<<<RInt(10), RInt(10)>>, <<RZero, RZero>>, <<RZero, RZero>>>>),
            \* inlets to units 1, 2, 3; unit 2 feeds itself a quarter of its outlet
            CarrierPoint(<<UnitVec(4, 1), UnitVec(4, 2), UnitVec(4, 3), UnitVec(4, 4),
                           <<RZero, Rat(1, 4), RZero, Rat(3, 4)>>, UnitVec(4, 4)>>,
                         <<<<RInt(20), RInt(20)>>, <<RInt(20), RInt(20)>>,
                           <<RInt(5), RInt(5)>>>>)}
      [] script = "simple" ->
           {\* unit 1 feeds itself a quarter of its outlet
            CarrierPoint(<<UnitVec(3, 1), UnitVec(3, 2),
                           <<Rat(1, 4), RZero, Rat(3, 4)>>, UnitVec(3, 3)>>,
                         <<<<Rat(160, 3), Rat(160, 3)>>, <<RInt(40), RInt(40)>>>>),
            \* unit 1 feeds itself half of its outlet
            CarrierPoint(<<UnitVec(3, 1), UnitVec(3, 3),
                           <<Rat(1, 2), RZero, Rat(1, 2)>>, UnitVec(3, 3)>>,
                         <<<<RInt(80), RInt(80)>>, <<RZero, RZero>>>>),
            \* a quarter of inlet 1 passes through unit 1
            CarrierPoint(<<<<Rat(1, 4), RZero, Rat(3, 4)>>, UnitVec(3, 3),
                           UnitVec(3, 3), UnitVec(3, 3)>>,
                         <<<<RInt(10), RInt(10)>>, <<RZero, RZero>>>>)}
      [] script = "waterDemo" ->
           {\* 19/20 of the inlets through both units in series
            CarrierPoint([i |-> DemoFractions(Rat(19, 20), RZero, Rat(1, 20)),
                          t |-> [u \in Range(sets.treatment_units) |->
                                   IF u = "unit1" THEN DemoFractions(RZero, ROne, RZero)
                                   ELSE DemoFractions(RZero, RZero, ROne)]],
                         [u \in Range(sets.treatment_units) |-> <<RInt(76), RInt(76)>>]),
            \* unit2 sends half of its outlet back to unit1
            CarrierPoint([i |-> DemoFractions(ROne, RZero, RZero),
                          t |-> [u \in Range(sets.treatment_units) |->
                                   IF u = "unit1" THEN DemoFractions(RZero, ROne, RZero)
                                   ELSE DemoFractions(Rat(1, 2), RZero, Rat(1, 2))]],
                         [u \in Range(sets.treatment_units) |-> <<RInt(160), RInt(160)>>]),
            \* a quarter of the inlets passes through unit1
            CarrierPoint([i |-> DemoFractions(Rat(1, 4), RZero, Rat(3, 4)),
                          t |-> [u \in Range(sets.treatment_units) |->
                                   DemoFractions(RZero, RZero, ROne)]],
                         [u \in Range(sets.treatment_units) |->
                             IF u = "unit1" THEN <<RInt(20), RInt(20)>> ELSE <<RZero, RZero>>]),
            \* unit1 feeds itself 30 of the 110 that leave it
            CarrierPoint([i |-> DemoFractions(ROne, RZero, RZero),
                          t |-> [u \in Range(sets.treatment_units) |->
                                   IF u = "unit1" THEN DemoFractions(Rat(3, 11), RZero, Rat(8, 11))
                                   ELSE DemoFractions(RZero, RZero, ROne)]],
                         [u \in Range(sets.treatment_units) |->
                             IF u = "unit1" THEN <<RInt(110), RInt(110)>> ELSE <<RZero, RZero>>])}
      [] OTHER -> {}

\* those of them that satisfy every carrier constraint of the model but the
\* terminal one
RecycleExhibits ==
    {a \in RecycleDesigns :
        \A n \in DOMAIN cons : (IsCarrier(cons[n]) /\ ~IsTerminal(cons[n])) => Holds(a, cons[n])}

\* total carrier flow arriving at the terminal mixer / outlet
TerminalCarrier(a) ==
    IF script = "waterDemo" THEN RefVal(a, Ref("flow_out", <<"W">>))
    ELSE RSum([n \in 1..Len(sets.mixer_ins) |->
                  RefVal(a, Ref("M_k", <<Len(sets.mixers), sets.mixer_ins[n], "W">>))])

\* C17: in every assignment that satisfies the inlet-split, mixer,
\* treatment-unit and splitter balances of the carrier (recycles between units
\* included), the carrier flow arriving at the terminal mixer / outlet equals
\* the sum of the inlet streams' flows (80 with the two-inlet data, 40 with the
\* three-inlet data): terminal inflow - inlet sum is a combination of those
\* balances, and so is the terminal mixer's carrier equality, which therefore
\* never conflicts with them.
C17_CarrierConserved ==
    Built =>
        /\ Follows(OutletTerms("W") \o <<TConst(RNeg(InletCarrier))>>, CarrierSteps)
        /\ InletCarrier = RInt(IF script \in {"simple", "waterDemo"} THEN 80 ELSE 40)
        /\ script \in IndexBuilt =>
              /\ Len(Rows("mixer_balance", <<Len(sets.mixers), "W">>)) = 1
              /\ \A n \in DOMAIN cons :
                    (IsCarrier(cons[n]) /\ IsTerminal(cons[n])) =>
                        Follows(Negated(Residual(cons[n])), CarrierSteps)

\* a built model whose carrier balances are satisfied with a recycle: a unit's
\* outlet carries flow, part of it goes back to the unit's own mixer or to
\* that of an earlier unit, and the terminal inflow is the inlet sum
C17_Witness ==
    /\ Built /\ script \in IndexBuilt
    /\ \E a \in RecycleExhibits : \E k \in 1..Len(sets.tru) : \E j \in 1..k :
          /\ UnitOut(a.design, k, "W")[1] > 0
          /\ Frac(a.design, nIn + k, j)[1] > 0
          /\ TerminalCarrier(a) = InletCarrier

\* the same in waterDemo: unit2 sends half of its carrier back to unit1
C17_DemoRecycle ==
    /\ Built /\ script = "waterDemo"
    /\ \E a \in RecycleExhibits :
          /\ a.design.tfrac["unit2"]["unit1"] = Rat(1, 2)
          /\ a.design.from["unit2"]["W"][1] > 0
          /\ TerminalCarrier(a) = InletCarrier

\* every one of the carrier assignments satisfies the balances and has the
\* inlet sum arriving at the terminal mixer / outlet
C17_AllExhibits ==
    /\ Built /\ script \in {"WTN_e8_CF", "simple", "waterDemo"}
    /\ RecycleExhibits = RecycleDesigns
    /\ Cardinality(RecycleDesigns) >= 3
    /\ \A a \in RecycleExhibits : TerminalCarrier(a) = InletCarrier

\* the removal percentage the table holds for an option and a pollutant
TablePercent(e, c) ==
    IF c = "A" THEN equipment_info(script)[e].A
    ELSE IF c = "B" THEN equipment_info(script)[e].B
    ELSE equipment_info(script)[e].C

IsFraction(x) == RLe(RZero, x) /\ RLe(x, ROne)

\* the removal constraints of the model: the disjuncts' and the model's own
RemovalRows ==
    UNION {{disjuncts[e][n] : n \in {i \in DOMAIN disjuncts[e] :
                                       disjuncts[e][i].name = "component_removal"}} :
             e \in DOMAIN disjuncts}
    \cup {cons[n] : n \in {i \in DOMAIN cons :
                             cons[i].name \in {"component_removal", "tru_performance"}}}

\* the units of the network and the components they treat
UnitsTreating == IF script = "waterDemo" THEN Range(sets.treatment_units) ELSE Range(sets.tru)

ComponentsTreated == IF script = "waterDemo" THEN Range(sets.Comps) ELSE Range(sets.comps)

UnitInlet(k, c) == Ref(IF script = "waterDemo" THEN "flow_into_tru" ELSE "IPU", <<k, c>>)

UnitOutlet(k, c) == Ref(IF script = "waterDemo" THEN "flow_from_tru" ELSE "OPU", <<k, c>>)

\* the removal equations unit k can work under for component c: the model's
\* own, or the one of each option listed by the unit's disjunction
RemovalRowsOf(k, c) ==
    IF script \in WithEquipment
    THEN UNION {{disjuncts[e][n] : n \in {i \in DOMAIN disjuncts[e] :
                                            /\ disjuncts[e][i].name = "component_removal"
                                            /\ disjuncts[e][i].idx = <<e, c>>}} :
                  e \in UnitMenu(k)}
    ELSE {cons[n] : n \in {i \in DOMAIN cons :
                             /\ cons[i].name \in {"component_removal", "tru_performance"}
                             /\ cons[i].idx = <<k, c>>}}

\* outlet - inlet <= 0 follows from the removal equation outlet = f * inlet
\* and inlet >= 0: outlet - inlet = (outlet - f * inlet) + (1 - f) * (-inlet)
OutletAtMostInlet(row) ==
    /\ vars[row.rhs[1].f[1][1]].domain = "NonNegativeReals"
    /\ FollowsLe(<<TVar(row.lhs[1].f[1]), TScaled(RNeg(ROne), row.rhs[1].f[1])>>,
                 <<<<TConst(ROne), row>>>>,
                 <<<<TConst(RSub(ROne, row.rhs[1].k)), NonNegForm(row.rhs[1].f[1])>>>>)

\* the unit's own carrier equality (in waterDemo.py the carrier's removal
\* equation), and the sign with which it gives outlet - inlet
CarrierRowsOf(k) ==
    IF script = "waterDemo" THEN Rows("tru_performance", <<k, "W">>)
    ELSE Rows("total_tru_flow_balance", <<k>>)

CarrierRowMultiplier == TConst(IF script = "waterDemo" THEN ROne ELSE RNeg(ROne))

\* C18: every removal ratio is the table percentage divided by 100 and lies in
\* [0,1]; for the carrier 'W' it is 0 for every option, so every removal
\* equation for 'W' reads outlet 'W' = 1 * inlet 'W', the unit's carrier
\* balance; every removal equation multiplies the inlet by a factor in [0,1];
\* in every loaded solution no unit's outlet flow of a component exceeds its
\* inlet flow (whichever option is selected: the removal equation and the
\* nonnegative inlet give it), and its carrier outlet equals its carrier inlet
\* (a constraint of the model).
C18_RemovalRatios ==
    /\ "beta" \in DOMAIN params =>
          \A ix \in DOMAIN params.beta :
              /\ IsFraction(params.beta[ix])
              /\ ix[2] = "W" => params.beta[ix] = RZero
              /\ ix[2] # "W" => RMul(params.beta[ix], RInt(100)) = TablePercent(ix[1], ix[2])
    /\ \A t \in DOMAIN perf : \A c \in DOMAIN perf[t] :
          IsFraction(perf[t][c]) /\ (c = "W" => perf[t][c] = RZero)
    /\ \A row \in RemovalRows :
          /\ row.lhs[1].k = ROne /\ Len(row.rhs) = 1
          /\ row.lhs[1].f[1][2] = row.rhs[1].f[1][2]
          /\ IsFraction(row.rhs[1].k)
          /\ row.idx[2] = "W" => row.rhs[1].k = ROne
    /\ Solved =>
          /\ \A k \in UnitsTreating : \A c \in ComponentsTreated :
                /\ RemovalRowsOf(k, c) # {}
                /\ \A row \in RemovalRowsOf(k, c) : OutletAtMostInlet(row)
          /\ \A k \in UnitsTreating :
                /\ CarrierRowsOf(k) # <<>>
                /\ Follows(<<TVar(UnitOutlet(k, "W")), TScaled(RNeg(ROne), UnitInlet(k, "W"))>>,
                           <<<<CarrierRowMultiplier, CarrierRowsOf(k)[1]>>>>)

\* a solution was loaded, and in a known feasible assignment a unit removes
\* part of a pollutant it receives
C18_Witness ==
    /\ Solved /\ script = "small_lit"
    /\ \E a \in KnownFeasible : \E k \in Range(sets.tru) :
          /\ a.val.IPU[<<k, "W">>][1] > 0
          /\ a.val.OPU[<<k, "A">>][1] > 0
          /\ a.val.OPU[<<k, "A">>] # a.val.IPU[<<k, "A">>]
          /\ RLe(a.val.OPU[<<k, "A">>], a.val.IPU[<<k, "A">>])

\* C19: in waterDemo in_split_frac is indexed by sink only; the inlet balance
\* of every inlet, sink and component reads in_flow[inlet][comp] *
\* in_split_frac[sink] == flow[inlet,sink,comp]; there is one inlet fraction-sum
\* constraint, without an inlet index; so in every loaded solution
\* flow[in1,s,c] * in_flow[in2][c] = flow[in2,s,c] * in_flow[in1][c]: the
\* difference of the two sides is in_flow[in1][c] times the balance of in2
\* minus in_flow[in2][c] times the balance of in1.
C19_InletsSplitAlike ==
    (Built /\ script = "waterDemo") =>
        /\ vars.in_split_frac.index = <<TruOrOutlet>>
        /\ \A i \in Range(sets.inlet) : \A s \in Range(TruOrOutlet) : \A c \in Range(sets.Comps) :
              /\ Cardinality(Hits("inlet_mass_bal", <<i, s, c>>)) = 1
              /\ \A n \in Hits("inlet_mass_bal", <<i, s, c>>) :
                    /\ cons[n].lhs = <<TScaled(RInt(in_flow[i][c]), Ref("in_split_frac", <<s>>))>>
                    /\ cons[n].rel = "eq"
                    /\ cons[n].rhs = <<TVar(Ref("flow", <<i, s, c>>))>>
        /\ Cardinality({n \in DOMAIN cons : cons[n].name = "inlet_frac_sum"}) = 1
        /\ Cardinality(Hits("inlet_frac_sum", <<>>)) = 1
        /\ Solved =>
              \A s \in Range(TruOrOutlet) : \A c \in Range(sets.Comps) :
                  Follows(<<TScaled(RInt(in_flow["in2"][c]), Ref("flow", <<"in1", s, c>>)),
                            TScaled(RInt(-in_flow["in1"][c]), Ref("flow", <<"in2", s, c>>))>>,
                          StepsOf(TConst(RInt(-in_flow["in2"][c])),
                                  Rows("inlet_mass_bal", <<"in1", s, c>>))
                          \o StepsOf(TConst(RInt(in_flow["in1"][c])),
                                     Rows("inlet_mass_bal", <<"in2", s, c>>)))

\* a solution was loaded, and a known feasible assignment divides both inlets
\* 9:1 between the two units
C19_Witness ==
    /\ Solved /\ script = "waterDemo"
    /\ \E a \in KnownFeasible :
          /\ a.val.in_split_frac[<<"unit1">>] = Rat(9, 10)
          /\ a.val.flow[<<"in1", "unit2", "A">>] = RInt(400)
          /\ a.val.flow[<<"in2", "unit2", "A">>] = RInt(60)

====
